---- MODULE Spec2Model ----
(***************************************************************************)
(* Media-asset lifecycle and retention engine of telegive-media.           *)
(*                                                                         *)
(* The registry (media_files, file_validation_log, file_cleanup_log), the  *)
(* upload folder (disk) and the wall clock (now) are the state.  Request   *)
(* handlers and scheduled jobs are the actions, one step per handler.     *)
(* Spec is the retention lifecycle (admission, association, scheduled      *)
(* cleanup, the clock); SpecStore is admission with its storage and commit *)
(* faults and orphan reconciliation; SpecAdmit is admission and manual     *)
(* removal; SpecRace runs two upload requests step by step on their own    *)
(* request threads.                                                        *)
(***************************************************************************)
EXTENDS Integers, Sequences, FiniteSets, TLC

VARIABLES media_files, next_id, file_validation_log, file_cleanup_log,
          disk, next_path, now, scan_enabled, last, req

vars == <<media_files, next_id, file_validation_log, file_cleanup_log,
          disk, next_path, now, scan_enabled, last, req>>

(***************************************************************************)
(* Bounds of the model.                                                    *)
(***************************************************************************)
\* rows the registry may ever hold (ids 1..MaxAssets)
MaxAssets == 2
\* rows the registry may ever hold when only admissions and removals run
MaxAdmitted == 3
\* files the storage may ever create without a registry row
MaxOrphans == 1
\* last minute of the wall clock
MaxTime == 5
\* rows either audit table may hold
MaxLogs == 2
\* purge windows the wall clock may advance by
MaxWindows == 2
\* rows the validation log may hold while the validation tasks run
MaxValidationLogs == 3

(***************************************************************************)
(* Configuration (config/settings.py).                                     *)
(***************************************************************************)
\* CLEANUP_DELAY_MINUTES
CleanupDelay == 5
\* CLEANUP_BATCH_SIZE, scaled down to the registry of the model
BatchSize == 2
\* VALIDATION_BATCH_SIZE, scaled down to the registry of the model
ValidationBatchSize == 2

\* the job ids of the scheduler that the model registers
MaxJobs == 3

\* config/production.py: SCHEDULER_MAX_WORKERS
SchedulerMaxWorkers == 2
\* days_old of cleanup_old_inactive_files, 30 days in minutes
PurgeWindow == 43200
\* the age beyond which database maintenance deletes audit rows, 30 days in
\* minutes
LogWindow == 43200
\* MAX_IMAGE_SIZE and MAX_VIDEO_SIZE in bytes
MaxImageSize == 10485760
MaxVideoSize == 52428800

ALLOWED_IMAGE_EXTENSIONS == {"jpg", "jpeg", "png", "gif"}
ALLOWED_VIDEO_EXTENSIONS == {"mp4", "mov", "avi"}

\* SQL NULL of a numeric column, None of a text column
NULL == -1
NONE == "none"

Accounts == {42, 43}
Giveaways == {7}

(***************************************************************************)
(* Uploaded candidates.  A content is what the byte-level checks look at:  *)
(* the MIME type libmagic sniffs, the length, and the markers the pattern  *)
(* scans search for.  A filename is its dot-separated parts.               *)
(***************************************************************************)
PngBytes == [mime |-> "image/png", size |-> 2048, marks |-> {}]
Mp4Bytes == [mime |-> "video/mp4", size |-> 4096, marks |-> {}]
ExeBytes == [mime |-> "application/x-dosexec", size |-> 64, marks |-> {"exec_header"}]
PngScriptBytes == [mime |-> "image/png", size |-> 2048, marks |-> {"script_body"}]
EmptyBytes == [mime |-> "application/x-empty", size |-> 0, marks |-> {}]
HugePngBytes == [mime |-> "image/png", size |-> 10485761, marks |-> {}]
TinyMp4Bytes == [mime |-> "video/mp4", size |-> 500, marks |-> {}]
\* what a write that failed half way leaves behind
PartialBytes == [mime |-> "application/octet-stream", size |-> 1, marks |-> {}]
\* a PNG header over a body that does not decode
TruncatedPngBytes == [mime |-> "image/png", size |-> 1024, marks |-> {"truncated"}]

File(filename, content) == [filename |-> filename, content |-> content]

\* the uploads the request handlers are driven with: a clean image, an
\* executable named as an image, and the clean image under a name with a
\* hidden dangerous extension
LifecycleCandidates == {File(<<"a", "png">>, PngBytes),
                        File(<<"a", "png">>, ExeBytes),
                        File(<<"a", "sh", "png">>, PngBytes)}

\* the uploads of the lifecycle runs: the clean image and the executable
\* named as an image
ImageCandidates == {File(<<"a", "png">>, PngBytes),
                    File(<<"a", "png">>, ExeBytes)}

\* one upload for each way through the validator and the scanner: two clean
\* files, and one file for each check that rejects
Candidates == {File(<<"a", "png">>, PngBytes),
               File(<<"a", "mp4">>, Mp4Bytes),
               File(<<"a">>, PngBytes),
               File(<<"a", "exe">>, PngBytes),
               File(<<"a", "png">>, EmptyBytes),
               File(<<"a", "png">>, HugePngBytes),
               File(<<"a", "png">>, ExeBytes),
               File(<<"a", "png">>, PngScriptBytes),
               File(<<"a", "mp4">>, TinyMp4Bytes),
               File(<<"a", "sh", "png">>, PngBytes)}

(***************************************************************************)
(* utils/file_validator.py                                                 *)
(***************************************************************************)
\* os.path.splitext(filename)[1].lower().lstrip('.')
_get_file_extension(filename) ==
    IF Len(filename) > 1 THEN filename[Len(filename)] ELSE ""

_detect_file_type(extension) ==
    IF extension \in ALLOWED_IMAGE_EXTENSIONS THEN "image"
    ELSE IF extension \in ALLOWED_VIDEO_EXTENSIONS THEN "video"
    ELSE NONE

_validate_file_size(file_size, file_type) ==
    LET max_size == IF file_type = "image" THEN MaxImageSize ELSE MaxVideoSize
    IN  /\ file_type \in {"image", "video"}
        /\ file_size <= max_size
        /\ file_size # 0

\* the sniffed type is all that is looked at; the declared type is not
_get_mime_type(content) == content.mime

expected_mimes(extension) ==
    CASE extension \in {"jpg", "jpeg"} -> {"image/jpeg"}
      [] extension = "png" -> {"image/png"}
      [] extension = "gif" -> {"image/gif"}
      [] extension = "mp4" -> {"video/mp4", "video/quicktime"}
      [] extension = "mov" -> {"video/quicktime"}
      [] extension = "avi" -> {"video/x-msvideo", "video/avi"}
      [] OTHER -> {}

_validate_mime_type(mime_type, file_type, extension) ==
    /\ file_type \in {"image", "video"}
    /\ mime_type \in expected_mimes(extension)

IsImageMime(mime_type) == mime_type \in {"image/jpeg", "image/png", "image/gif"}
IsVideoMime(mime_type) ==
    mime_type \in {"video/mp4", "video/quicktime", "video/x-msvideo", "video/avi"}

\* suspicious patterns in the first 1KB, then the per-kind checks
_validate_security(content, mime_type) ==
    /\ "script_head" \notin content.marks
    /\ IsImageMime(mime_type) =>
          content.marks \cap {"script_head", "script_body"} = {}
    /\ IsVideoMime(mime_type) => content.size >= 1000

\* the validator that trusts the Content-Type header of the part
validate_phase_Declared(file) ==
    LET file_extension == _get_file_extension(file.filename)
        detected_type == _detect_file_type(file_extension)
        mime_type == file.content_type
    IN  IF file_extension = "" THEN "no_extension"
        ELSE IF detected_type = NONE THEN "unsupported_extension"
        ELSE IF file.content.size = 0 THEN "empty"
        ELSE IF ~_validate_file_size(file.content.size, detected_type) THEN "size"
        ELSE IF ~_validate_mime_type(mime_type, detected_type, file_extension)
             THEN "mime_mismatch"
        ELSE IF ~_validate_security(file.content, mime_type) THEN "security"
        ELSE "ok"

\* the first failing phase, or "ok"
validate_phase(file) ==
    LET file_extension == _get_file_extension(file.filename)
        detected_type == _detect_file_type(file_extension)
        mime_type == _get_mime_type(file.content)
    IN  IF file_extension = "" THEN "no_extension"
        ELSE IF detected_type = NONE THEN "unsupported_extension"
        ELSE IF file.content.size = 0 THEN "empty"
        ELSE IF ~_validate_file_size(file.content.size, detected_type) THEN "size"
        ELSE IF ~_validate_mime_type(mime_type, detected_type, file_extension)
             THEN "mime_mismatch"
        ELSE IF ~_validate_security(file.content, mime_type) THEN "security"
        ELSE "ok"

validate_file(file) ==
    LET file_extension == _get_file_extension(file.filename)
    IN  [valid |-> validate_phase(file) = "ok",
         filename |-> file.filename,
         file_type |-> _detect_file_type(file_extension),
         file_extension |-> file_extension,
         mime_type |-> _get_mime_type(file.content),
         file_size |-> file.content.size]

(***************************************************************************)
(* utils/security_scanner.py                                               *)
(***************************************************************************)
dangerous_extensions == {"exe", "bat", "cmd", "js", "php", "py", "sh", "bash"}

blocked_mime_types == {"application/x-executable", "application/x-msdownload",
                       "application/x-dosexec", "application/x-sh",
                       "application/x-shellscript", "text/x-php"}

_check_mime_type(mime_type) == mime_type \notin blocked_mime_types

\* the extension itself, and every part between the first and the last
_check_file_extension(filename) ==
    /\ _get_file_extension(filename) \notin dangerous_extensions
    /\ \A i \in 2..(Len(filename) - 1) : filename[i] \notin dangerous_extensions

_check_suspicious_patterns(content) ==
    content.marks \cap {"script_head", "script_body"} = {}

_check_file_headers(content) ==
    ~(content.size >= 4 /\ "exec_header" \in content.marks)

_check_embedded_content(content, mime_type) ==
    /\ IsImageMime(mime_type) =>
          content.marks \cap {"script_head", "script_body", "text_heavy"} = {}
    /\ IsVideoMime(mime_type) =>
          content.marks \cap {"script_head", "script_body"} = {}

\* the assignments to result['risk_level']: 'high' outright, 'medium' only
\* from 'low', or 'medium' only from 'low' or 'medium'; this one overwrites
Escalate_Overwrite(risk_level, rule) ==
    IF rule = "high" THEN "high" ELSE "medium"

Escalate(risk_level, rule) ==
    CASE rule = "high" -> "high"
      [] rule = "medium_if_low" ->
            IF risk_level = "low" THEN "medium" ELSE risk_level
      [] rule = "medium_if_low_or_medium" ->
            IF risk_level \in {"low", "medium"} THEN "medium" ELSE risk_level

\* one check of scan_file folded into the result
AfterCheck(result, check_safe, threat, rule) ==
    IF check_safe THEN result
    ELSE [safe |-> FALSE,
          threats_detected |-> Append(result.threats_detected, threat),
          risk_level |-> Escalate(result.risk_level, rule)]

\* the result before the first check, after each of the five checks, and as
\* returned; raised: the scan raised and the except clause built the result
ScanSteps(content, filename, mime_type, raised) ==
    LET s0 == [safe |-> TRUE, threats_detected |-> << >>, risk_level |-> "low"]
        s1 == AfterCheck(s0, _check_mime_type(mime_type), "mime", "high")
        s2 == AfterCheck(s1, _check_file_extension(filename), "extension",
                         "high")
        s3 == AfterCheck(s2, _check_suspicious_patterns(content), "pattern",
                         "medium_if_low")
        s4 == AfterCheck(s3, _check_file_headers(content), "header", "high")
        s5 == AfterCheck(s4, _check_embedded_content(content, mime_type),
                         "embedded", "medium_if_low_or_medium")
    IN  <<s0, s1, s2, s3, s4, s5,
          IF raised
          THEN [safe |-> FALSE, threats_detected |-> <<"scan_error">>,
                risk_level |-> "critical"]
          ELSE s5>>

scan_file(content, filename, mime_type) ==
    LET result == ScanSteps(content, filename, mime_type, FALSE)[7]
    IN  [safe |-> result.safe, risk_level |-> result.risk_level]

(***************************************************************************)
(* utils/file_hasher.py: the SHA-256 digest identifies the bytes, whatever *)
(* the filename.                                                           *)
(***************************************************************************)
calculate_hash(content) == <<"sha256", content.mime, content.size, content.marks>>

(***************************************************************************)
(* models/media_file.py, models/validation_log.py, models/cleanup_log.py   *)
(***************************************************************************)
\* a row inserted without is_validated=True keeps the column default False
MediaFile_DefaultValidated(account_id, file_path, file_info, file_hash, is_validated, utcnow) ==
    [account_id |-> account_id,
     giveaway_id |-> NULL,
     original_filename |-> file_info.filename,
     file_path |-> file_path,
     file_size |-> file_info.file_size,
     file_type |-> file_info.file_type,
     mime_type |-> file_info.mime_type,
     file_hash |-> file_hash,
     cleanup_status |-> "pending",
     cleanup_scheduled_at |-> NULL,
     cleanup_completed_at |-> NULL,
     cleanup_error |-> NONE,
     is_active |-> TRUE,
     is_validated |-> FALSE,
     validation_error |-> NONE,
     uploaded_at |-> utcnow]

\* a new row with the column defaults: cleanup_status 'pending', is_active
\* True, uploaded_at the time of the insert, every nullable column NULL
MediaFile(account_id, file_path, file_info, file_hash, is_validated, utcnow) ==
    [account_id |-> account_id,
     giveaway_id |-> NULL,
     original_filename |-> file_info.filename,
     file_path |-> file_path,
     file_size |-> file_info.file_size,
     file_type |-> file_info.file_type,
     mime_type |-> file_info.mime_type,
     file_hash |-> file_hash,
     cleanup_status |-> "pending",
     cleanup_scheduled_at |-> NULL,
     cleanup_completed_at |-> NULL,
     cleanup_error |-> NONE,
     is_active |-> TRUE,
     is_validated |-> is_validated,
     validation_error |-> NONE,
     uploaded_at |-> utcnow]

\* the delay taken in whole hours instead of minutes
mark_for_cleanup_DelayInHours(media_file, utcnow, delay_minutes) ==
    [media_file EXCEPT !.cleanup_scheduled_at = utcnow + 60 * delay_minutes,
                       !.cleanup_status = "pending"]

\* the scheduling that also puts the row back in use
mark_for_cleanup_Reactivates(media_file, utcnow, delay_minutes) ==
    [media_file EXCEPT !.cleanup_scheduled_at = utcnow + delay_minutes,
                       !.cleanup_status = "pending",
                       !.is_active = TRUE]

mark_for_cleanup(media_file, utcnow, delay_minutes) ==
    [media_file EXCEPT !.cleanup_scheduled_at = utcnow + delay_minutes,
                       !.cleanup_status = "pending"]

mark_permanent(media_file) ==
    [media_file EXCEPT !.cleanup_status = "permanent",
                       !.cleanup_scheduled_at = NULL]

\* the completion that forgets to deactivate the row
mark_cleanup_completed_StaysActive(media_file, utcnow) ==
    [media_file EXCEPT !.cleanup_status = "published_and_removed",
                       !.cleanup_completed_at = utcnow]

mark_cleanup_completed(media_file, utcnow) ==
    [media_file EXCEPT !.cleanup_status = "published_and_removed",
                       !.cleanup_completed_at = utcnow,
                       !.is_active = FALSE]

FileValidationLog(media_file_id, validation_type, result, utcnow) ==
    [media_file_id |-> media_file_id,
     validation_type |-> validation_type,
     validation_result |-> result,
     validated_at |-> utcnow]

FileCleanupLog(media_file_id, trigger, success, file_size_freed, utcnow) ==
    [media_file_id |-> media_file_id,
     cleanup_trigger |-> trigger,
     cleanup_success |-> success,
     file_size_freed |-> file_size_freed,
     cleanup_timestamp |-> utcnow]

Ids == DOMAIN media_files

(***************************************************************************)
(* utils/file_storage.py.  The upload folder is a map from path to the     *)
(* bytes stored there; generated names are unique (uuid4), so a path is    *)
(* the serial number of the name.                                          *)
(***************************************************************************)
\* the placeholder file that keeps the upload folder in the repository
GitKeepPath == 0
GitKeepBytes == [mime |-> "application/x-empty", size |-> 0, marks |-> {}]

Exists(d, file_path) == file_path \in DOMAIN d
GetSize(d, file_path) == d[file_path].size
Remove(d, file_path) == [p \in DOMAIN d \ {file_path} |-> d[p]]
WriteFile(d, file_path, content) ==
    [p \in DOMAIN d \cup {file_path} |-> IF p = file_path THEN content ELSE d[p]]

\* the write that reports success whatever happened
save_file_content_AlwaysSuccess(d, file_content, file_path, outcome) ==
    [success |-> TRUE, file_path |-> file_path,
     disk |-> IF outcome = "ok" THEN WriteFile(d, file_path, file_content)
              ELSE d]

\* outcome "ok": the write went through; "fail": nothing was written;
\* "partial": open() created the file and write() raised
save_file_content(d, file_content, file_path, outcome) ==
    CASE outcome = "ok" ->
           [success |-> TRUE, file_path |-> file_path,
            disk |-> WriteFile(d, file_path, file_content)]
      [] outcome = "partial" ->
           [success |-> FALSE, file_path |-> NULL,
            disk |-> WriteFile(d, file_path, PartialBytes)]
      [] OTHER ->
           [success |-> FALSE, file_path |-> NULL, disk |-> d]

\* the delete that reports a missing file as an error
delete_file_MissingIsError(d, file_path, outcome) ==
    IF Exists(d, file_path) /\ outcome = "ok"
    THEN [success |-> TRUE, file_size_freed |-> GetSize(d, file_path),
          disk |-> Remove(d, file_path)]
    ELSE [success |-> FALSE, file_size_freed |-> 0, disk |-> d]

\* the delete that reports the bytes and leaves the file where it is
delete_file_KeepsFile(d, file_path, outcome) ==
    IF Exists(d, file_path)
    THEN IF outcome = "ok"
         THEN [success |-> TRUE, file_size_freed |-> GetSize(d, file_path),
               disk |-> d]
         ELSE [success |-> FALSE, file_size_freed |-> 0, disk |-> d]
    ELSE [success |-> TRUE, file_size_freed |-> 0, disk |-> d]

\* outcome "ok": os.remove went through; anything else: it raised.  A
\* missing file is a success that frees nothing.
delete_file(d, file_path, outcome) ==
    IF Exists(d, file_path)
    THEN IF outcome = "ok"
         THEN [success |-> TRUE, file_size_freed |-> GetSize(d, file_path),
               disk |-> Remove(d, file_path)]
         ELSE [success |-> FALSE, file_size_freed |-> 0, disk |-> d]
    ELSE [success |-> TRUE, file_size_freed |-> 0, disk |-> d]

(***************************************************************************)
(* Helpers over the registry.                                              *)
(***************************************************************************)
Insert(table, id, row) ==
    [i \in DOMAIN table \cup {id} |-> IF i = id THEN row ELSE table[i]]

RECURSIVE SetToSeq(_)
\* the ids of a set in ascending order
SetToSeq(S) ==
    IF S = {} THEN << >>
    ELSE LET m == CHOOSE x \in S : \A y \in S : x <= y
         IN  <<m>> \o SetToSeq(S \ {m})

\* the outcome of the last completed request or job run
Response(op, code, id, ids, arg) ==
    [op |-> op, code |-> code, id |-> id, ids |-> ids, arg |-> arg]

Idle == [pc |-> "idle"]

Init ==
    /\ media_files = << >>
    /\ next_id = 1
    /\ file_validation_log = << >>
    /\ file_cleanup_log = << >>
    /\ disk = [p \in {GitKeepPath} |-> GitKeepBytes]
    /\ next_path = 1
    /\ now = 0
    /\ scan_enabled \in BOOLEAN
    /\ last = Response("start", "ok", 0, {}, << >>)
    /\ req = [t \in {1, 2} |-> Idle]

(***************************************************************************)
(* routes/upload.py: upload_file                                           *)
(***************************************************************************)
\* MediaFile.query.filter_by(account_id, file_hash): the rows .first() may
\* return (the query has no ORDER BY)
DuplicateRows(table, account_id, file_hash) ==
    {i \in DOMAIN table : /\ table[i].account_id = account_id
                          /\ table[i].file_hash = file_hash}

\* the gate that never consults the scanner
Gate_NoScan(file) ==
    IF ~validate_file(file).valid THEN "VALIDATION_FAILED" ELSE "ok"

\* the validator and scanner gate: "ok" or the error code of the response
Gate(file) ==
    LET validation_result == validate_file(file)
    IN  IF ~validation_result.valid THEN "VALIDATION_FAILED"
        ELSE IF scan_enabled /\
                ~scan_file(file.content, file.filename,
                           validation_result.mime_type).safe
             THEN "SECURITY_SCAN_FAILED"
        ELSE "ok"

UploadRejected(account_id, file) ==
    /\ Gate(file) # "ok"
    /\ last' = Response("upload", Gate(file), 0, {}, <<0, file>>)
    /\ UNCHANGED <<media_files, next_id, file_validation_log, file_cleanup_log,
                   disk, next_path, now, scan_enabled, req>>

\* existing_file: a row .first() may return, or 0 when there is none
UploadDuplicate(account_id, file, existing_file) ==
    /\ Gate(file) = "ok"
    /\ IF existing_file = 0 THEN FALSE
       ELSE media_files[existing_file].is_active
    /\ last' = Response("upload", "duplicate", existing_file, {},
                        <<account_id, file>>)
    /\ UNCHANGED <<media_files, next_id, file_validation_log, file_cleanup_log,
                   disk, next_path, now, scan_enabled, req>>

UploadStore(account_id, file, existing_file, storage_outcome, commit_outcome, max_assets, max_orphans) ==
    LET file_info == validate_file(file)
        file_hash == calculate_hash(file.content)
        storage_result == save_file_content(disk, file.content, next_path,
                                            storage_outcome)
        media_file == MediaFile(account_id, storage_result.file_path,
                                file_info, file_hash, TRUE, now)
    IN  /\ Gate(file) = "ok"
        /\ IF existing_file = 0 THEN TRUE
           ELSE ~media_files[existing_file].is_active
        /\ next_path' = IF storage_outcome = "fail" THEN next_path
                        ELSE next_path + 1
        /\ disk' = storage_result.disk
        /\ IF ~storage_result.success
           THEN /\ storage_outcome = "partial" =>
                      next_path - next_id < max_orphans
                /\ last' = Response("upload", "STORAGE_FAILED", 0, {},
                                    <<account_id, file>>)
                /\ UNCHANGED <<media_files, next_id, file_validation_log>>
           ELSE IF commit_outcome = "ok"
           THEN /\ next_id <= max_assets
                /\ media_files' = Insert(media_files, next_id, media_file)
                /\ next_id' = next_id + 1
                /\ file_validation_log' =
                      Append(file_validation_log,
                             FileValidationLog(next_id, "complete", TRUE, now))
                /\ last' = Response("upload", "created", next_id, {},
                                    <<account_id, file>>)
           \* add, flush or commit raised: db.session.rollback() and a 500
           ELSE /\ next_path - next_id < max_orphans
                /\ last' = Response("upload", "UPLOAD_FAILED", 0, {next_path},
                                    <<account_id, file>>)
                /\ UNCHANGED <<media_files, next_id, file_validation_log>>
        /\ UNCHANGED <<file_cleanup_log, now, scan_enabled, req>>

\* a request of one of the accounts with one of the candidates; max_assets
\* rows and max_orphans files without a row may ever be created
upload_file(accounts, candidates, max_assets, max_orphans) ==
    \E account_id \in accounts, file \in candidates :
       \/ UploadRejected(account_id, file)
       \/ \E existing_file \in
               IF DuplicateRows(media_files, account_id,
                                calculate_hash(file.content)) = {}
               THEN {0}
               ELSE DuplicateRows(media_files, account_id,
                                  calculate_hash(file.content)) :
             \/ UploadDuplicate(account_id, file, existing_file)
             \/ \E storage_outcome \in {"ok", "fail", "partial"} :
                   \E commit_outcome \in IF storage_outcome = "ok"
                                         THEN {"ok", "raise"} ELSE {"ok"} :
                   UploadStore(account_id, file, existing_file,
                               storage_outcome, commit_outcome, max_assets,
                               max_orphans)

(***************************************************************************)
(* tasks/cleanup_tasks.py and routes/media.py: the per-item cleanup step   *)
(* shared by the scheduled job (trigger 'scheduled') and the cleanup       *)
(* request of a giveaway (trigger 'giveaway_published').                   *)
(***************************************************************************)
\* outcome "ok" or "fail": what os.remove does; "raise": the step raises
\* before anything was touched, which the caller only logs
_cleanup_single_file(d, media_file_id, media_file, utcnow, trigger, outcome) ==
    LET deletion_result == delete_file(d, media_file.file_path, outcome)
    IN  IF outcome = "raise"
        THEN [result |-> "raised", media_file |-> media_file,
              logs |-> << >>, disk |-> d]
        ELSE IF deletion_result.success
        THEN [result |-> "cleaned",
              media_file |-> mark_cleanup_completed(media_file, utcnow),
              logs |-> <<FileCleanupLog(media_file_id, trigger, TRUE,
                                        deletion_result.file_size_freed,
                                        utcnow)>>,
              disk |-> deletion_result.disk]
        ELSE [result |-> "failed",
              media_file |-> [media_file EXCEPT !.cleanup_error = "error"],
              logs |-> <<FileCleanupLog(media_file_id, trigger, FALSE, NULL,
                                        utcnow)>>,
              disk |-> deletion_result.disk]

RECURSIVE CleanupLoop(_, _, _, _, _, _, _)
\* for media_file in files_to_cleanup: the session and the disk after the loop
CleanupLoop(files_to_cleanup, table, log, d, utcnow, trigger, outcomes) ==
    IF files_to_cleanup = << >>
    THEN [media_files |-> table, file_cleanup_log |-> log, disk |-> d,
          results |-> << >>]
    ELSE LET id == Head(files_to_cleanup)
             step == _cleanup_single_file(d, id, table[id], utcnow, trigger,
                                          outcomes[id])
             rest == CleanupLoop(Tail(files_to_cleanup),
                                 [table EXCEPT ![id] = step.media_file],
                                 log \o step.logs, step.disk, utcnow, trigger,
                                 outcomes)
         IN  [rest EXCEPT !.results = <<step.result>> \o rest.results]

\* the query without its cleanup_scheduled_at <= cutoff_time filter
DueForCleanup_NoCutoff(table, cutoff_time) ==
    {i \in DOMAIN table : /\ table[i].cleanup_status = "pending"
                          /\ table[i].cleanup_scheduled_at # NULL
                          /\ table[i].is_active}

\* the rows the scheduled job's query matches
DueForCleanup(table, cutoff_time) ==
    {i \in DOMAIN table : /\ table[i].cleanup_status = "pending"
                          /\ table[i].cleanup_scheduled_at # NULL
                          /\ table[i].cleanup_scheduled_at <= cutoff_time
                          /\ table[i].is_active}

\* .limit(batch_size).all() without ORDER BY: any batch_size of the matches
Limit(matches, batch_size) ==
    {S \in SUBSET matches :
        Cardinality(S) = IF Cardinality(matches) < batch_size
                         THEN Cardinality(matches) ELSE batch_size}

\* what a run reports per item
Results(files, loop) ==
    [i \in DOMAIN files |-> <<files[i], loop.results[i]>>]

\* the run whose loop stops at the first item that is not cleaned
CleanupRun_AbortOnFailure(op, files_to_cleanup, trigger, outcomes, commit_outcome) ==
    LET files == SetToSeq(files_to_cleanup)
        bad == {k \in DOMAIN files : outcomes[files[k]] # "ok"}
        stop == IF bad = {} THEN Len(files)
                ELSE CHOOSE k \in bad : \A n \in bad : k <= n
        loop == CleanupLoop(SubSeq(files, 1, stop), media_files,
                            file_cleanup_log, disk, now, trigger, outcomes)
        results == [k \in DOMAIN files |->
                      <<files[k], IF k <= stop THEN loop.results[k]
                                  ELSE "skipped">>]
    IN  /\ Len(loop.file_cleanup_log) <= MaxLogs
        /\ disk' = loop.disk
        /\ IF files_to_cleanup = {}
           THEN /\ commit_outcome = "ok"
                /\ UNCHANGED <<media_files, file_cleanup_log>>
                /\ last' = Response(op, "ok", 0, {}, << >>)
           ELSE IF commit_outcome = "ok"
           THEN /\ media_files' = loop.media_files
                /\ file_cleanup_log' = loop.file_cleanup_log
                /\ last' = Response(op, "ok", 0, files_to_cleanup, results)
           ELSE /\ UNCHANGED <<media_files, file_cleanup_log>>
                /\ last' = Response(op, "rolled_back", 0, files_to_cleanup,
                                    results)
        /\ UNCHANGED <<next_id, file_validation_log, next_path, now,
                       scan_enabled, req>>

\* the run whose except clause does not roll the session back
CleanupRun_NoRollback(op, files_to_cleanup, trigger, outcomes, commit_outcome) ==
    LET files == SetToSeq(files_to_cleanup)
        loop == CleanupLoop(files, media_files, file_cleanup_log, disk, now,
                            trigger, outcomes)
    IN  /\ Len(loop.file_cleanup_log) <= MaxLogs
        /\ disk' = loop.disk
        /\ IF files_to_cleanup = {}
           THEN /\ commit_outcome = "ok"
                /\ UNCHANGED <<media_files, file_cleanup_log>>
                /\ last' = Response(op, "ok", 0, {}, << >>)
           ELSE /\ media_files' = loop.media_files
                /\ file_cleanup_log' = loop.file_cleanup_log
                /\ last' = Response(op,
                                    IF commit_outcome = "ok" THEN "ok"
                                    ELSE "rolled_back", 0, files_to_cleanup,
                                    Results(files, loop))
        /\ UNCHANGED <<next_id, file_validation_log, next_path, now,
                       scan_enabled, req>>

CleanupRun(op, files_to_cleanup, trigger, outcomes, commit_outcome) ==
    LET files == SetToSeq(files_to_cleanup)
        loop == CleanupLoop(files, media_files, file_cleanup_log, disk, now,
                            trigger, outcomes)
    IN  /\ Len(loop.file_cleanup_log) <= MaxLogs
        /\ disk' = loop.disk
        \* if not files_to_cleanup: return, before any commit
        /\ IF files_to_cleanup = {}
           THEN /\ commit_outcome = "ok"
                /\ UNCHANGED <<media_files, file_cleanup_log>>
                /\ last' = Response(op, "ok", 0, {}, << >>)
           ELSE IF commit_outcome = "ok"
           THEN /\ media_files' = loop.media_files
                /\ file_cleanup_log' = loop.file_cleanup_log
                /\ last' = Response(op, "ok", 0, files_to_cleanup,
                                    Results(files, loop))
           \* db.session.commit() raised: db.session.rollback()
           ELSE /\ UNCHANGED <<media_files, file_cleanup_log>>
                /\ last' = Response(op, "rolled_back", 0, files_to_cleanup,
                                    Results(files, loop))
        /\ UNCHANGED <<next_id, file_validation_log, next_path, now,
                       scan_enabled, req>>

cleanup_scheduled_files ==
    \E files_to_cleanup \in Limit(DueForCleanup(media_files, now), BatchSize) :
       \E outcomes \in [files_to_cleanup -> {"ok", "fail", "raise"}],
          commit_outcome \in {"ok", "raise"} :
          CleanupRun("cleanup_scheduled_files", files_to_cleanup, "scheduled",
                     outcomes, commit_outcome)

\* the query without its giveaway_id filter
PendingOfGiveaway_AnyGiveaway(table, giveaway_id) ==
    {i \in DOMAIN table : /\ table[i].cleanup_status = "pending"
                          /\ table[i].is_active}

\* the rows the cleanup request of a giveaway matches
PendingOfGiveaway(table, giveaway_id) ==
    {i \in DOMAIN table : /\ table[i].giveaway_id = giveaway_id
                          /\ table[i].cleanup_status = "pending"
                          /\ table[i].is_active}

\* the giveaway ids of cleanup requests: those assets are associated with,
\* and one no asset has
CleanupRequests == Giveaways \cup {8}

cleanup_files ==
    \E giveaway_id \in CleanupRequests :
       \E outcomes \in [PendingOfGiveaway(media_files, giveaway_id) ->
                           {"ok", "fail", "raise"}],
          commit_outcome \in {"ok", "raise"} :
          CleanupRun("cleanup_files",
                     PendingOfGiveaway(media_files, giveaway_id),
                     "giveaway_published", outcomes, commit_outcome)

(***************************************************************************)
(* tasks/cleanup_tasks.py: cleanup_orphaned_files                          *)
(***************************************************************************)
\* the walk that removes without looking a file up in the registry
OrphanedFiles_NoLookup(d, table) ==
    {p \in DOMAIN d : p # GitKeepPath}

\* the files of the walk that no row's file_path names
OrphanedFiles(d, table) ==
    {p \in DOMAIN d : /\ p # GitKeepPath
                      /\ \A i \in DOMAIN table : table[i].file_path # p}

cleanup_orphaned_files ==
    \E outcomes \in [OrphanedFiles(disk, media_files) -> {"ok", "raise"}] :
       LET removed == {p \in OrphanedFiles(disk, media_files) :
                          outcomes[p] = "ok"}
           \* os.remove raised: logged, the walk goes on
           failed == OrphanedFiles(disk, media_files) \ removed
       IN  /\ disk' = [p \in DOMAIN disk \ removed |-> disk[p]]
           /\ last' = Response("cleanup_orphaned_files", "ok", 0, removed,
                               failed)
           /\ UNCHANGED <<media_files, next_id, file_validation_log,
                          file_cleanup_log, next_path, now, scan_enabled, req>>

(***************************************************************************)
(* tasks/cleanup_tasks.py: cleanup_old_inactive_files                      *)
(***************************************************************************)
\* the purge that takes every inactive row, however recent
OldInactiveFiles_NoWindow(table, cutoff_date) ==
    {i \in DOMAIN table : ~table[i].is_active}

\* the rows the purge query matches; a NULL cleanup_completed_at compares
\* as unknown and does not match
OldInactiveFiles(table, cutoff_date) ==
    {i \in DOMAIN table : /\ ~table[i].is_active
                          /\ table[i].cleanup_completed_at # NULL
                          /\ table[i].cleanup_completed_at <= cutoff_date}

\* the delete that leaves the audit rows of the deleted asset behind
CascadeDelete_KeepsLogs(log, removed) ==
    log

\* db.session.delete(media_file) with cascade='all, delete-orphan'
CascadeDelete(log, removed) ==
    SelectSeq(log, LAMBDA r : r.media_file_id \notin removed)

cleanup_old_inactive_files ==
    \E old_files \in Limit(OldInactiveFiles(media_files, now - PurgeWindow),
                           BatchSize) :
       \E outcomes \in [{i \in old_files :
                            Exists(disk, media_files[i].file_path)} ->
                           {"ok", "raise"}],
          commit_outcome \in {"ok", "raise"} :
          LET \* os.remove raised for a file that exists: the row is skipped
              skipped == {i \in DOMAIN outcomes : outcomes[i] = "raise"}
              removed == old_files \ skipped
              paths == {media_files[i].file_path : i \in removed}
          IN  /\ disk' = [p \in DOMAIN disk \ paths |-> disk[p]]
              /\ IF old_files = {}
                 THEN /\ commit_outcome = "ok"
                      /\ last' = Response("cleanup_old_inactive_files", "ok",
                                          0, {}, << >>)
                      /\ UNCHANGED <<media_files, file_validation_log,
                                     file_cleanup_log>>
                 ELSE IF commit_outcome = "ok"
                 THEN /\ media_files' =
                            [i \in Ids \ removed |-> media_files[i]]
                      /\ file_validation_log' =
                            CascadeDelete(file_validation_log, removed)
                      /\ file_cleanup_log' =
                            CascadeDelete(file_cleanup_log, removed)
                      /\ last' = Response("cleanup_old_inactive_files", "ok",
                                          0, removed, << >>)
                 ELSE /\ last' = Response("cleanup_old_inactive_files",
                                          "rolled_back", 0, {}, << >>)
                      /\ UNCHANGED <<media_files, file_validation_log,
                                     file_cleanup_log>>
              /\ UNCHANGED <<next_id, next_path, now, scan_enabled, req>>

(***************************************************************************)
(* routes/media.py: associate_file, delete_file                            *)
(***************************************************************************)
\* has_key: the request body holds the 'giveaway_id' key
associate_file ==
    \E file_id \in 1..next_id :
       /\ IF file_id \notin Ids
          THEN /\ last' = Response("associate_file", "FILE_NOT_FOUND", 0,
                                   {}, << >>)
               /\ UNCHANGED media_files
          ELSE \E has_key \in BOOLEAN :
                  IF ~has_key
                  THEN /\ last' = Response("associate_file",
                                           "MISSING_GIVEAWAY_ID", 0, {},
                                           << >>)
                       /\ UNCHANGED media_files
                  ELSE \E giveaway_id \in Giveaways,
                          commit_outcome \in {"ok", "raise"} :
                          IF commit_outcome = "ok"
                          THEN /\ media_files' =
                                     [media_files EXCEPT ![file_id] =
                                         mark_for_cleanup(
                                            [media_files[file_id] EXCEPT
                                                !.giveaway_id = giveaway_id],
                                            now, CleanupDelay)]
                               /\ last' = Response("associate_file", "ok",
                                                   file_id, {}, giveaway_id)
                          ELSE /\ last' = Response("associate_file",
                                                   "ASSOCIATION_FAILED", 0,
                                                   {}, << >>)
                               /\ UNCHANGED media_files
       /\ UNCHANGED <<next_id, file_validation_log, file_cleanup_log, disk,
                      next_path, now, scan_enabled, req>>

media_delete_file ==
    \E file_id \in 1..next_id, outcome \in {"ok", "fail"},
       commit_outcome \in {"ok", "raise"} :
       IF file_id \notin Ids
       THEN /\ last' = Response("delete_file", "FILE_NOT_FOUND", 0, {},
                                << >>)
            /\ UNCHANGED <<media_files, next_id, file_validation_log,
                           file_cleanup_log, disk, next_path, now,
                           scan_enabled, req>>
       ELSE LET media_file == media_files[file_id]
                deletion_result == delete_file(disk, media_file.file_path,
                                               outcome)
            IN  /\ Len(file_cleanup_log) < MaxLogs
                /\ disk' = deletion_result.disk
                /\ IF commit_outcome # "ok"
                   THEN /\ last' = Response("delete_file", "DELETE_FAILED",
                                            file_id, {}, "rolled_back")
                        /\ UNCHANGED <<media_files, file_cleanup_log>>
                   ELSE IF deletion_result.success
                   THEN /\ media_files' =
                              [media_files EXCEPT ![file_id] =
                                  [media_file EXCEPT
                                      !.is_active = FALSE,
                                      !.cleanup_status =
                                          "published_and_removed"]]
                        /\ file_cleanup_log' =
                              Append(file_cleanup_log,
                                     FileCleanupLog(file_id, "manual", TRUE,
                                        deletion_result.file_size_freed,
                                        now))
                        /\ last' = Response("delete_file", "ok", file_id, {},
                                            deletion_result.file_size_freed)
                   ELSE /\ file_cleanup_log' =
                              Append(file_cleanup_log,
                                     FileCleanupLog(file_id, "manual", FALSE,
                                                    NULL, now))
                        /\ last' = Response("delete_file", "DELETE_FAILED",
                                            file_id, {}, "storage")
                        /\ UNCHANGED media_files
                /\ UNCHANGED <<next_id, file_validation_log, next_path, now,
                               scan_enabled, req>>

(***************************************************************************)
(* routes/admin.py: cleanup_orphaned_files, the repair of rows whose file  *)
(* is missing                                                              *)
(***************************************************************************)
\* the active rows whose file does not exist on disk
RowsWithoutFile(table, d) ==
    {i \in DOMAIN table : table[i].is_active /\ ~Exists(d, table[i].file_path)}

RECURSIVE OrphanedCleanupLogs(_, _, _)
\* one FileCleanupLog per repaired row
OrphanedCleanupLogs(files, table, utcnow) ==
    IF files = << >> THEN << >>
    ELSE <<FileCleanupLog(Head(files), "orphaned_cleanup", TRUE,
                          table[Head(files)].file_size, utcnow)>>
         \o OrphanedCleanupLogs(Tail(files), table, utcnow)

admin_cleanup_orphaned_files ==
    \E commit_outcome \in {"ok", "raise"} :
       LET orphaned == RowsWithoutFile(media_files, disk)
           logs == OrphanedCleanupLogs(SetToSeq(orphaned), media_files, now)
       IN  /\ Len(file_cleanup_log) + Len(logs) <= MaxLogs
           /\ IF commit_outcome = "ok"
              THEN /\ media_files' =
                         [i \in Ids |->
                             IF i \in orphaned
                             THEN [media_files[i] EXCEPT
                                      !.is_active = FALSE,
                                      !.cleanup_status = "file_not_found"]
                             ELSE media_files[i]]
                   /\ file_cleanup_log' = file_cleanup_log \o logs
                   /\ last' = Response("admin_cleanup_orphaned_files", "ok",
                                       0, orphaned, << >>)
              ELSE /\ last' = Response("admin_cleanup_orphaned_files",
                                       "ORPHANED_CLEANUP_FAILED", 0, {},
                                       << >>)
                   /\ UNCHANGED <<media_files, file_cleanup_log>>
           /\ UNCHANGED <<next_id, file_validation_log, disk, next_path, now,
                          scan_enabled, req>>

(***************************************************************************)
(* routes/media.py: download_file                                          *)
(***************************************************************************)
\* the try block of download_file: the status abort() raises, or the file
\* send_file serves; send_outcome "raise" is an I/O error of send_file
DownloadAttempt(file_id, send_outcome) ==
    IF file_id \notin Ids
    THEN [raised |-> TRUE, status |-> "404", body |-> << >>]
    ELSE IF ~media_files[file_id].is_active
    THEN [raised |-> TRUE, status |-> "410", body |-> << >>]
    ELSE IF ~Exists(disk, media_files[file_id].file_path)
    THEN [raised |-> TRUE, status |-> "404", body |-> << >>]
    ELSE IF send_outcome # "ok"
    THEN [raised |-> TRUE, status |-> "500", body |-> << >>]
    ELSE [raised |-> FALSE, status |-> "200",
          body |-> <<media_files[file_id].mime_type,
                     disk[media_files[file_id].file_path]>>]

\* abort() raises an HTTPException, which is an Exception: the handler's
\* except Exception clause catches it and answers abort(500)
download_file ==
    \E file_id \in 1..next_id, send_outcome \in {"ok", "raise"} :
       LET attempt == DownloadAttempt(file_id, send_outcome)
       IN  /\ last' = IF attempt.raised
                      THEN Response("download_file", "500", file_id, {},
                                    << >>)
                      ELSE Response("download_file", attempt.status, file_id,
                                    {}, attempt.body)
           /\ UNCHANGED <<media_files, next_id, file_validation_log,
                          file_cleanup_log, disk, next_path, now,
                          scan_enabled, req>>

(***************************************************************************)
(* routes/media.py: get_account_files, the rows its query selects          *)
(***************************************************************************)
AccountFilesQuery(table, account_id, status) ==
    {i \in DOMAIN table :
        /\ table[i].account_id = account_id
        /\ status = "active" => table[i].is_active
        /\ status = "inactive" => ~table[i].is_active}

(***************************************************************************)
(* Storage outside the service: a stored file is overwritten, truncated,   *)
(* restored or lost while its row stays, which is what the existence, size *)
(* and hash checks of the validation handlers look for.                    *)
(***************************************************************************)
\* what a stored file may hold afterwards: the bytes that were admitted, or
\* a remnant of them
StoredContents(media_file) ==
    {content \in {PngBytes, TruncatedPngBytes} :
        calculate_hash(content) = media_file.file_hash} \cup {PartialBytes}

StorageChange ==
    \E i \in Ids :
       LET file_path == media_files[i].file_path
       IN  /\ media_files[i].is_active
           /\ \/ /\ Exists(disk, file_path)
                 /\ disk' = Remove(disk, file_path)
              \/ \E content \in StoredContents(media_files[i]) :
                    /\ IF Exists(disk, file_path)
                       THEN disk[file_path] # content ELSE TRUE
                    /\ disk' = WriteFile(disk, file_path, content)
           /\ last' = Response("storage_change", "ok", i, {}, << >>)
           /\ UNCHANGED <<media_files, next_id, file_validation_log,
                          file_cleanup_log, next_path, now, scan_enabled,
                          req>>

(***************************************************************************)
(* routes/media.py: validate_file                                          *)
(***************************************************************************)
\* the row's is_validated becomes the conjunction of the checks, of which
\* only the size comparison can fail once the file is known to exist
media_validate_file ==
    \E file_id \in 1..next_id, commit_outcome \in {"ok", "raise"} :
       IF file_id \notin Ids
       THEN /\ last' = Response("validate_file", "404", file_id, {},
                                "FILE_NOT_FOUND")
            /\ UNCHANGED <<media_files, next_id, file_validation_log,
                           file_cleanup_log, disk, next_path, now,
                           scan_enabled, req>>
       ELSE IF ~Exists(disk, media_files[file_id].file_path)
       THEN /\ last' = Response("validate_file", "404", file_id, {},
                                "FILE_NOT_ON_DISK")
            /\ UNCHANGED <<media_files, next_id, file_validation_log,
                           file_cleanup_log, disk, next_path, now,
                           scan_enabled, req>>
       ELSE LET media_file == media_files[file_id]
                size_valid ==
                   GetSize(disk, media_file.file_path) = media_file.file_size
            IN  /\ IF commit_outcome = "ok"
                   THEN /\ media_files' =
                              [media_files EXCEPT
                                  ![file_id].is_validated = size_valid]
                        /\ last' = Response("validate_file", "200", file_id,
                                            {}, size_valid)
                   ELSE /\ last' = Response("validate_file", "500", file_id,
                                            {}, "VALIDATION_FAILED")
                        /\ UNCHANGED media_files
                /\ UNCHANGED <<next_id, file_validation_log, file_cleanup_log,
                               disk, next_path, now, scan_enabled, req>>

(***************************************************************************)
(* tasks/validation_tasks.py                                               *)
(***************************************************************************)
\* the hash of the bytes now on disk against the stored one
_validate_file_integrity(media_file, d) ==
    calculate_hash(d[media_file.file_path]) = media_file.file_hash

\* Image.open(...).verify() and ffprobe: the bytes parse as the kind
validate_image_content(content) ==
    IsImageMime(content.mime) /\ "truncated" \notin content.marks

validate_video_content(content) ==
    IsVideoMime(content.mime) /\ "truncated" \notin content.marks

_validate_file_content(media_file, d) ==
    CASE media_file.file_type = "image" ->
           validate_image_content(d[media_file.file_path])
      [] media_file.file_type = "video" ->
           validate_video_content(d[media_file.file_path])
      [] OTHER -> FALSE

_validate_file_security(media_file, d) ==
    scan_file(d[media_file.file_path], media_file.original_filename,
              media_file.mime_type).safe

\* one evaluated check: its kind and what it found
Check(kind, valid) == <<kind, valid>>

\* a validation that runs every check whatever the earlier ones found
ValidationDetails_RunsAll(media_file, d, scanning) ==
    LET exists == Exists(d, media_file.file_path)
    IN  <<Check("file_existence", exists),
          Check("integrity", exists /\ _validate_file_integrity(media_file, d)),
          Check("content", exists /\ _validate_file_content(media_file, d))>>
        \o IF scanning
           THEN <<Check("security",
                        exists /\ _validate_file_security(media_file, d))>>
           ELSE << >>

\* the checks the try block evaluates, in the order it evaluates them: each
\* 'return result' ends the list
ValidationDetails(media_file, d, scanning) ==
    IF ~Exists(d, media_file.file_path)
    THEN <<Check("file_existence", FALSE)>>
    ELSE IF ~_validate_file_integrity(media_file, d)
    THEN <<Check("file_existence", TRUE), Check("integrity", FALSE)>>
    ELSE IF ~_validate_file_content(media_file, d)
    THEN <<Check("file_existence", TRUE), Check("integrity", TRUE),
           Check("content", FALSE)>>
    ELSE IF scanning
    THEN <<Check("file_existence", TRUE), Check("integrity", TRUE),
           Check("content", TRUE),
           Check("security", _validate_file_security(media_file, d))>>
    ELSE <<Check("file_existence", TRUE), Check("integrity", TRUE),
           Check("content", TRUE)>>

\* the first check of the list that failed, or "ok"
FirstFailed(details) ==
    IF \A k \in DOMAIN details : details[k][2] THEN "ok"
    ELSE details[CHOOSE k \in DOMAIN details :
                    /\ ~details[k][2]
                    /\ \A n \in 1..(k - 1) : details[n][2]][1]

\* the check that failed, or "ok"
ValidationChecks(media_file, d, scanning) ==
    FirstFailed(ValidationDetails(media_file, d, scanning))

\* a validation that marks the row validated whatever the checks found
_validate_single_file_NoChecks(media_file_id, media_file, d, scanning, utcnow, outcome) ==
    [success |-> TRUE,
     media_file |-> [media_file EXCEPT !.is_validated = TRUE,
                                       !.validation_error = NONE],
     logs |-> <<FileValidationLog(media_file_id, "complete_validation", TRUE,
                                  utcnow)>>]

\* a validation that updates the row and adds no record
_validate_single_file_NoRecord(media_file_id, media_file, d, scanning, utcnow, outcome) ==
    IF outcome # "raise" /\ ValidationChecks(media_file, d, scanning) = "ok"
    THEN [success |-> TRUE,
          media_file |-> [media_file EXCEPT !.is_validated = TRUE,
                                            !.validation_error = NONE],
          logs |-> << >>]
    ELSE [success |-> FALSE, media_file |-> media_file, logs |-> << >>]

\* outcome "raise": an exception inside the try block, before the status is
\* updated.  Only a missing file and an exception add a record; only an
\* exception stores validation_error.
_validate_single_file(media_file_id, media_file, d, scanning, utcnow, outcome) ==
    LET failed == ValidationChecks(media_file, d, scanning)
    IN  IF outcome = "raise"
        THEN [success |-> FALSE,
              media_file |-> [media_file EXCEPT !.validation_error = "error"],
              logs |-> <<FileValidationLog(media_file_id, "validation_error",
                                           FALSE, utcnow)>>]
        ELSE IF failed = "file_existence"
        THEN [success |-> FALSE, media_file |-> media_file,
              logs |-> <<FileValidationLog(media_file_id, "file_existence",
                                           FALSE, utcnow)>>]
        ELSE IF failed # "ok"
        THEN [success |-> FALSE, media_file |-> media_file, logs |-> << >>]
        ELSE [success |-> TRUE,
              media_file |-> [media_file EXCEPT !.is_validated = TRUE,
                                                !.validation_error = NONE],
              logs |-> <<FileValidationLog(media_file_id,
                                           "complete_validation", TRUE,
                                           utcnow)>>]

RECURSIVE ValidationLoop(_, _, _, _, _, _, _, _)
\* for media_file in files: the session after the loop; clear_error is the
\* revalidation's reset of validation_error before the attempt
ValidationLoop(files, table, log, d, scanning, utcnow, outcomes, clear_error) ==
    IF files = << >>
    THEN [media_files |-> table, file_validation_log |-> log,
          validated |-> {}, raised |-> {}]
    ELSE LET id == Head(files)
             media_file ==
                IF clear_error
                THEN [table[id] EXCEPT !.validation_error = NONE]
                ELSE table[id]
             step == _validate_single_file(id, media_file, d, scanning,
                                           utcnow, outcomes[id])
             rest == ValidationLoop(Tail(files),
                                    [table EXCEPT ![id] = step.media_file],
                                    log \o step.logs, d, scanning, utcnow,
                                    outcomes, clear_error)
         IN  [rest EXCEPT !.validated =
                              IF step.success THEN rest.validated \cup {id}
                              ELSE rest.validated,
                          !.raised =
                              IF outcomes[id] = "raise"
                              THEN rest.raised \cup {id} ELSE rest.raised]

\* the rows the pending run's query matches
PendingFiles(table) ==
    {i \in DOMAIN table : ~table[i].is_validated /\ table[i].is_active}

\* the rows the revalidation run's query matches
FailedFiles(table) ==
    {i \in DOMAIN table : /\ ~table[i].is_validated
                          /\ table[i].validation_error # NONE
                          /\ table[i].is_active}

\* one run of either task over the rows it selected; the selection is
\* reported with last, whatever the commit does
ValidationRun(op, files, outcomes, commit_outcome, clear_error) ==
    LET loop == ValidationLoop(SetToSeq(files), media_files,
                               file_validation_log, disk, scan_enabled, now,
                               outcomes, clear_error)
    IN  /\ Len(loop.file_validation_log) <= MaxValidationLogs
        /\ IF files # {} /\ commit_outcome = "ok"
           THEN /\ media_files' = loop.media_files
                /\ file_validation_log' = loop.file_validation_log
                /\ last' = Response(op, "ok", 0, files,
                                    [validated |-> loop.validated,
                                     raised |-> loop.raised])
           ELSE /\ last' = Response(op,
                                    IF files = {} THEN "none"
                                    ELSE "rolled_back", 0, files,
                                    [validated |-> {}, raised |-> {}])
                /\ UNCHANGED <<media_files, file_validation_log>>
        /\ UNCHANGED <<next_id, file_cleanup_log, disk, next_path, now,
                       scan_enabled, req>>

validate_pending_files ==
    \E pending_files \in Limit(PendingFiles(media_files),
                               ValidationBatchSize),
       commit_outcome \in {"ok", "raise"} :
       \E outcomes \in [pending_files -> {"ok", "raise"}] :
          ValidationRun("validate_pending_files", pending_files, outcomes,
                        commit_outcome, FALSE)

revalidate_failed_files ==
    \E failed_files \in Limit(FailedFiles(media_files),
                              ValidationBatchSize \div 2),
       commit_outcome \in {"ok", "raise"} :
       \E outcomes \in [failed_files -> {"ok", "raise"}] :
          ValidationRun("revalidate_failed_files", failed_files, outcomes,
                        commit_outcome, TRUE)

(***************************************************************************)
(* tasks/scheduler.py: _database_maintenance                               *)
(***************************************************************************)
\* the maintenance that deletes every validation record, whatever its age
RecentValidationLogs_NoCutoff(log, cutoff_date) == << >>

\* what FileValidationLog.query.filter(validated_at < cutoff_date).delete()
\* leaves
RecentValidationLogs(log, cutoff_date) ==
    SelectSeq(log, LAMBDA r : ~(r.validated_at < cutoff_date))

\* what FileCleanupLog.query.filter(cleanup_timestamp < cutoff_date).delete()
\* leaves
RecentCleanupLogs(log, cutoff_date) ==
    SelectSeq(log, LAMBDA r : ~(r.cleanup_timestamp < cutoff_date))

\* a commit that raises is logged and nothing is deleted
_database_maintenance ==
    \E commit_outcome \in {"ok", "raise"} :
       LET cutoff_date == now - LogWindow
       IN  /\ IF commit_outcome = "ok"
              THEN /\ file_validation_log' =
                         RecentValidationLogs(file_validation_log,
                                              cutoff_date)
                   /\ file_cleanup_log' =
                         RecentCleanupLogs(file_cleanup_log, cutoff_date)
                   /\ last' = Response("database_maintenance", "ok", 0, {},
                                       << >>)
              ELSE /\ last' = Response("database_maintenance", "failed", 0,
                                       {}, << >>)
                   /\ UNCHANGED <<file_validation_log, file_cleanup_log>>
           /\ UNCHANGED <<media_files, next_id, disk, next_path, now,
                          scan_enabled, req>>

\* the wall clock, read by the handlers through datetime.utcnow(), moves a
\* cleanup delay at a time
Tick ==
    /\ now + CleanupDelay <= MaxTime
    /\ now' = now + CleanupDelay
    /\ last' = Response("tick", "ok", 0, {}, << >>)
    /\ UNCHANGED <<media_files, next_id, file_validation_log, file_cleanup_log,
                   disk, next_path, scan_enabled, req>>

\* the wall clock moves a purge window at a time
TickWindow ==
    /\ now + PurgeWindow <= MaxWindows * PurgeWindow
    /\ now' = now + PurgeWindow
    /\ last' = Response("tick", "ok", 0, {}, << >>)
    /\ UNCHANGED <<media_files, next_id, file_validation_log, file_cleanup_log,
                   disk, next_path, scan_enabled, req>>

\* the retention lifecycle; the admissions here leave no file without a row
\* (those faults are the subject of SpecStore)
Next ==
    \/ upload_file(Accounts, ImageCandidates, MaxAssets, 0)
    \/ associate_file
    \/ cleanup_scheduled_files
    \/ Tick

Spec == Init /\ [][Next]_vars

(***************************************************************************)
(* routes/upload.py: upload_file on a request thread, one step per         *)
(* registry or storage access.  A thread serves one request.               *)
(***************************************************************************)
Threads == {1, 2}

\* validation, scan, hash and the duplicate query (lines 63-118)
ReqLookup(t) ==
    \E account_id \in Accounts, file \in LifecycleCandidates :
       \E existing_file \in
             IF DuplicateRows(media_files, account_id,
                              calculate_hash(file.content)) = {}
             THEN {0}
             ELSE DuplicateRows(media_files, account_id,
                                calculate_hash(file.content)) :
          /\ req[t].pc = "idle"
          /\ req' = [req EXCEPT ![t] =
                IF Gate(file) # "ok"
                THEN [pc |-> "done", code |-> Gate(file), id |-> 0,
                      account_id |-> account_id, file |-> file,
                      file_path |-> NULL]
                ELSE IF existing_file # 0 /\ media_files[existing_file].is_active
                THEN [pc |-> "done", code |-> "duplicate",
                      id |-> existing_file, account_id |-> account_id,
                      file |-> file, file_path |-> NULL]
                ELSE [pc |-> "store", code |-> NONE, id |-> 0,
                      account_id |-> account_id, file |-> file,
                      file_path |-> NULL]]
          /\ UNCHANGED <<media_files, next_id, file_validation_log,
                         file_cleanup_log, disk, next_path, now, scan_enabled,
                         last>>

\* file_storage.save_file_content (lines 127-142)
ReqStore(t) ==
    \E storage_outcome \in {"ok", "fail", "partial"} :
       LET storage_result == save_file_content(disk, req[t].file.content,
                                               next_path, storage_outcome)
       IN  /\ req[t].pc = "store"
           /\ disk' = storage_result.disk
           /\ next_path' = IF storage_outcome = "fail" THEN next_path
                           ELSE next_path + 1
           /\ req' = [req EXCEPT ![t] =
                 IF storage_result.success
                 THEN [@ EXCEPT !.pc = "commit",
                                !.file_path = storage_result.file_path]
                 ELSE [@ EXCEPT !.pc = "done", !.code = "STORAGE_FAILED"]]
           /\ UNCHANGED <<media_files, next_id, file_validation_log,
                          file_cleanup_log, now, scan_enabled, last>>

\* the insert, the validation log and db.session.commit() (lines 144-187),
\* or the rollback of the exception handler (lines 199-210)
ReqCommit(t) ==
    \E commit_outcome \in {"ok", "raise"} :
       LET r == req[t]
           media_file == MediaFile(r.account_id, r.file_path,
                                   validate_file(r.file),
                                   calculate_hash(r.file.content), TRUE,
                                   now)
       IN  /\ r.pc = "commit"
           /\ IF commit_outcome = "ok"
              THEN /\ media_files' = Insert(media_files, next_id, media_file)
                   /\ next_id' = next_id + 1
                   /\ file_validation_log' =
                         Append(file_validation_log,
                                FileValidationLog(next_id, "complete", TRUE, now))
                   /\ req' = [req EXCEPT ![t] =
                         [r EXCEPT !.pc = "done", !.code = "created",
                                   !.id = next_id]]
              ELSE /\ req' = [req EXCEPT ![t] =
                         [r EXCEPT !.pc = "done", !.code = "UPLOAD_FAILED"]]
                   /\ UNCHANGED <<media_files, next_id, file_validation_log>>
           /\ UNCHANGED <<file_cleanup_log, disk, next_path, now,
                          scan_enabled, last>>

NextRace == \E t \in Threads : ReqLookup(t) \/ ReqStore(t) \/ ReqCommit(t)

SpecRace == Init /\ [][NextRace]_vars

(***************************************************************************)
(* tasks/__init__.py and tasks/scheduler.py: the background scheduler.     *)
(* req[Scheduler] is the task_scheduler object together with the jobs its  *)
(* executor has accepted; req[w], w in Workers, is a thread of the         *)
(* executor's pool.  The job functions themselves are the actions of the   *)
(* sections above; here a running job is only the interval it occupies a   *)
(* worker.                                                                 *)
(***************************************************************************)
Scheduler == 0

\* add_job calls of _add_cleanup_jobs, _add_validation_jobs and
\* _add_maintenance_jobs, in the order start() makes them
JobOrder ==
    <<"cleanup_scheduled_files", "cleanup_orphaned_files",
      "cleanup_old_inactive_files", "validate_pending_files",
      "revalidate_failed_files", "log_statistics", "database_maintenance">>

JobIds ==
    {JobOrder[k] : k \in 1..(IF MaxJobs < Len(JobOrder) THEN MaxJobs
                             ELSE Len(JobOrder))}

\* job_defaults['max_instances']
max_instances_Two == 1 + 1
max_instances == 1

Workers == 3..(2 + SchedulerMaxWorkers)

\* scheduler: the BackgroundScheduler was built; thread: the start_scheduler
\* thread; state: the BackgroundScheduler's own state; jobs: the job ids
\* added; queue: the jobs submitted to the pool and not yet on a worker
TaskScheduler(scheduler, thread, state, is_running, jobs, queue) ==
    [pc |-> "scheduler", scheduler |-> scheduler, thread |-> thread,
     state |-> state, is_running |-> is_running, jobs |-> jobs,
     queue |-> queue]

\* init_tasks(app): init_outcome "raise" is an exception of init_app
init_tasks ==
    \E scheduler_enabled \in BOOLEAN, init_outcome \in {"ok", "raise"} :
       /\ Scheduler \notin DOMAIN req
       /\ req' =
             IF ~scheduler_enabled
             THEN (Scheduler :> TaskScheduler(FALSE, "none", "stopped",
                                              FALSE, {}, << >>)) @@ req
             ELSE IF init_outcome = "raise"
             THEN (Scheduler :> TaskScheduler(FALSE, "none", "stopped",
                                              FALSE, {}, << >>)) @@ req
             ELSE (Scheduler :> TaskScheduler(TRUE, "spawned", "stopped",
                                              FALSE, {}, << >>))
                  @@ [w \in Workers |-> Idle] @@ req
       /\ UNCHANGED <<media_files, next_id, file_validation_log,
                      file_cleanup_log, disk, next_path, now, scan_enabled,
                      last>>

\* TaskScheduler.start(): added is the number of add_job calls made before
\* an exception, start_outcome the outcome of scheduler.start(); raised
\* tells whether an exception leaves the method
start_Reraise(self, added, start_outcome) ==
    IF self.is_running THEN [self |-> self, raised |-> FALSE]
    ELSE IF added < Len(JobOrder)
    THEN [self |-> [self EXCEPT !.jobs =
                       {JobOrder[k] : k \in 1..added} \cap JobIds],
          raised |-> TRUE]
    ELSE IF start_outcome = "raise"
    THEN [self |-> [self EXCEPT !.jobs = JobIds], raised |-> TRUE]
    ELSE [self |-> [self EXCEPT !.jobs = JobIds, !.state = "running",
                                !.is_running = TRUE],
          raised |-> FALSE]

start(self, added, start_outcome) ==
    IF self.is_running THEN [self |-> self, raised |-> FALSE]
    ELSE IF added < Len(JobOrder)
    THEN [self |-> [self EXCEPT !.jobs =
                       {JobOrder[k] : k \in 1..added} \cap JobIds],
          raised |-> FALSE]
    ELSE IF start_outcome = "raise"
    THEN [self |-> [self EXCEPT !.jobs = JobIds], raised |-> FALSE]
    ELSE [self |-> [self EXCEPT !.jobs = JobIds, !.state = "running",
                                !.is_running = TRUE],
          raised |-> FALSE]

\* the start_scheduler thread of init_tasks
start_scheduler ==
    \E added \in 0..Len(JobOrder), start_outcome \in {"ok", "raise"} :
       LET started == start(req[Scheduler], added, start_outcome)
       IN  /\ Scheduler \in DOMAIN req
           /\ req[Scheduler].thread = "spawned"
           /\ req' = [req EXCEPT ![Scheduler] =
                 [started.self EXCEPT !.thread =
                     IF started.raised THEN "raised" ELSE "returned"]]
           /\ UNCHANGED <<media_files, next_id, file_validation_log,
                          file_cleanup_log, disk, next_path, now,
                          scan_enabled, last>>

\* the instances of job j the executor counts: submitted and not finished
Instances(j) ==
    Cardinality({k \in 1..Len(req[Scheduler].queue) :
                    req[Scheduler].queue[k] = j})
    + Cardinality({w \in Workers : req[w].pc = "running" /\ req[w].job = j})

\* a trigger of job j comes due: the executor accepts the run unless
\* max_instances runs of j are already submitted
JobFire ==
    \E j \in JobIds :
       /\ Scheduler \in DOMAIN req
       /\ req[Scheduler].state = "running"
       /\ j \in req[Scheduler].jobs
       /\ req' = IF Instances(j) >= max_instances THEN req
                 ELSE [req EXCEPT ![Scheduler].queue = Append(@, j)]
       /\ UNCHANGED <<media_files, next_id, file_validation_log,
                      file_cleanup_log, disk, next_path, now, scan_enabled,
                      last>>

\* a free worker of the pool takes the oldest submitted job
JobStart ==
    \E w \in Workers :
       /\ Scheduler \in DOMAIN req
       /\ w \in DOMAIN req
       /\ req[w].pc = "idle"
       /\ req[Scheduler].queue # << >>
       /\ req' = [req EXCEPT ![w] = [pc |-> "running",
                                    job |-> Head(req[Scheduler].queue)],
                             ![Scheduler].queue = Tail(@)]
       /\ UNCHANGED <<media_files, next_id, file_validation_log,
                      file_cleanup_log, disk, next_path, now, scan_enabled,
                      last>>

\* the job function returns or raises; the executor releases the instance
JobFinish ==
    \E w \in Workers :
       /\ w \in DOMAIN req
       /\ req[w].pc = "running"
       /\ req' = [req EXCEPT ![w] = Idle]
       /\ UNCHANGED <<media_files, next_id, file_validation_log,
                      file_cleanup_log, disk, next_path, now, scan_enabled,
                      last>>

\* the scheduler beside one admission request
NextSched ==
    \/ init_tasks
    \/ start_scheduler
    \/ JobFire
    \/ JobStart
    \/ JobFinish
    \/ ReqLookup(1)
    \/ ReqStore(1)
    \/ ReqCommit(1)

SpecSched == Init /\ [][NextSched]_vars

\* admissions, manual removals, downloads and the admin repair of rows
\* without a file, over a larger registry
NextAdmit ==
    \/ upload_file(Accounts, ImageCandidates, MaxAdmitted, MaxOrphans)
    \/ media_delete_file
    \/ download_file
    \/ admin_cleanup_orphaned_files

SpecAdmit == Init /\ [][NextAdmit]_vars

\* the cleanup request of a giveaway over associated and unassociated assets,
\* none of them due
NextGroup ==
    \/ upload_file(Accounts, ImageCandidates, MaxAssets, 0)
    \/ associate_file
    \/ cleanup_files

SpecGroup == Init /\ [][NextGroup]_vars

(***************************************************************************)
(* The validator applied to one multipart part: the filename, the bytes    *)
(* and the Content-Type header the client declared.                        *)
(***************************************************************************)
Upload(filename, content, content_type) ==
    [filename |-> filename, content |-> content, content_type |-> content_type]

Filenames == {<<"a", "png">>, <<"a", "jpg">>, <<"a", "mp4">>, <<"a">>,
              <<"a", "exe">>, <<"a", "sh", "png">>}

Contents == {PngBytes, Mp4Bytes, ExeBytes, PngScriptBytes, EmptyBytes,
             HugePngBytes, TinyMp4Bytes, PartialBytes, TruncatedPngBytes}

DeclaredTypes == {"image/png", "video/mp4", "application/x-dosexec"}

\* validation_result = file_validator.validate_file(file)
validate_upload ==
    \E filename \in Filenames, content \in Contents,
       content_type \in DeclaredTypes :
       LET file == Upload(filename, content, content_type)
       IN  /\ last' = Response("validate_file", validate_phase(file), 0, {},
                               <<file, validate_file(file)>>)
           /\ UNCHANGED <<media_files, next_id, file_validation_log,
                          file_cleanup_log, disk, next_path, now,
                          scan_enabled, req>>

\* an executable header after a script marker, under a MIME no list names
ScriptedExeBytes ==
    [mime |-> "application/octet-stream", size |-> 64,
     marks |-> {"script_body", "exec_header"}]

\* a PNG that is mostly printable text
TextPngBytes == [mime |-> "image/png", size |-> 2048, marks |-> {"text_heavy"}]

\* security_result = security_scanner.scan_file(file_content, filename,
\* mime_type), with the steps its result went through
scan_upload ==
    \E filename \in Filenames,
       content \in Contents \cup {ScriptedExeBytes, TextPngBytes},
       raised \in BOOLEAN :
       /\ last' = Response("scan_file",
                           scan_file(content, filename, content.mime), 0, {},
                           <<File(filename, content),
                             ScanSteps(content, filename, content.mime,
                                       raised)>>)
       /\ UNCHANGED <<media_files, next_id, file_validation_log,
                      file_cleanup_log, disk, next_path, now, scan_enabled,
                      req>>

NextChecks ==
    \/ validate_upload
    \/ scan_upload

SpecChecks == Init /\ [][NextChecks]_vars

\* the lifecycle over months: one owner's image is admitted, associated,
\* removed by the scheduled job and purged, again and again
NextPurge ==
    \/ upload_file({42}, ImageCandidates, MaxAssets, 0)
    \/ associate_file
    \/ cleanup_scheduled_files
    \/ cleanup_old_inactive_files
    \/ TickWindow

\* the service as configured by default: SECURITY_SCAN_ENABLED is off
InitDefault == Init /\ ~scan_enabled

SpecPurge == InitDefault /\ [][NextPurge]_vars

\* one owner's admissions of every candidate with their storage and commit
\* faults, and orphan reconciliation
NextStore ==
    \/ upload_file({42}, Candidates, MaxAssets, MaxOrphans)
    \/ cleanup_orphaned_files

SpecStore == Init /\ [][NextStore]_vars

\* one owner's images, what happens to their files on disk, the on-demand
\* validation and the two validation tasks
NextValidate ==
    \/ upload_file({42}, {File(<<"a", "png">>, PngBytes),
                          File(<<"a", "png">>, TruncatedPngBytes),
                          File(<<"a", "png">>, ExeBytes)}, MaxAssets, 0)
    \/ StorageChange
    \/ media_validate_file
    \/ validate_pending_files
    \/ revalidate_failed_files

SpecValidate == Init /\ [][NextValidate]_vars

\* one owner's image over months: admitted, validated on demand and by the
\* pending run, while database maintenance deletes the old audit rows
NextMaint ==
    \/ upload_file({42}, ImageCandidates, MaxAssets, 0)
    \/ StorageChange
    \/ media_validate_file
    \/ validate_pending_files
    \/ _database_maintenance
    \/ TickWindow

SpecMaint == Init /\ [][NextMaint]_vars

\* a registry the routes have filled by time 0: owner 42's image is admitted
\* and associated with giveaway 7, its stored file has since been cut short
\* and the on-demand validation has found the size wrong (is_validated False);
\* owner 43 may have had the same image admitted and associated, file intact
InitBatch ==
    \E second \in BOOLEAN :
       LET file == File(<<"a", "png">>, PngBytes)
           Row(account_id, file_path, is_validated) ==
              mark_for_cleanup(
                 [MediaFile(account_id, file_path, validate_file(file),
                            calculate_hash(file.content), is_validated, 0)
                     EXCEPT !.giveaway_id = 7],
                 0, CleanupDelay)
           uploads == IF second THEN {1, 2} ELSE {1}
       IN  /\ media_files = [i \in uploads |->
                               IF i = 1 THEN Row(42, 1, FALSE)
                               ELSE Row(43, 2, TRUE)]
           /\ next_id = Cardinality(uploads) + 1
           /\ file_validation_log =
                 [i \in uploads |-> FileValidationLog(i, "complete", TRUE, 0)]
           /\ file_cleanup_log = << >>
           /\ disk = [p \in {GitKeepPath} \cup uploads |->
                        IF p = GitKeepPath THEN GitKeepBytes
                        ELSE IF p = 1 THEN PartialBytes ELSE PngBytes]
           /\ next_path = Cardinality(uploads) + 1
           /\ now = 0
           /\ scan_enabled = FALSE
           /\ last = Response("start", "ok", 0, {}, << >>)
           /\ req = [t \in {1, 2} |-> Idle]

\* the four batch jobs over that registry
NextBatch ==
    \/ cleanup_scheduled_files
    \/ cleanup_old_inactive_files
    \/ validate_pending_files
    \/ revalidate_failed_files
    \/ TickWindow

SpecBatch == InitBatch /\ [][NextBatch]_vars

\* the admissions behind a backlog: each is one owner's clean image or clean
\* video, so that no two are duplicates of each other
BacklogUploads ==
    <<<<42, File(<<"a", "png">>, PngBytes)>>,
      <<43, File(<<"a", "png">>, PngBytes)>>,
      <<42, File(<<"a", "mp4">>, Mp4Bytes)>>,
      <<43, File(<<"a", "mp4">>, Mp4Bytes)>>>>

\* a registry the routes have filled: one asset more than a batch holds, each
\* admitted and associated with giveaway 7 at time 0, and the delay has passed
InitBacklog ==
    LET uploads == 1..(BatchSize + 1)
        Row(i) ==
           mark_for_cleanup(
              [MediaFile(BacklogUploads[i][1], i,
                         validate_file(BacklogUploads[i][2]),
                         calculate_hash(BacklogUploads[i][2].content), TRUE, 0)
                  EXCEPT !.giveaway_id = 7],
              0, CleanupDelay)
    IN  /\ media_files = [i \in uploads |-> Row(i)]
        /\ next_id = BatchSize + 2
        /\ file_validation_log =
              [i \in uploads |-> FileValidationLog(i, "complete", TRUE, 0)]
        /\ file_cleanup_log = << >>
        /\ disk = [p \in {GitKeepPath} \cup uploads |->
                     IF p = GitKeepPath THEN GitKeepBytes
                     ELSE BacklogUploads[p][2].content]
        /\ next_path = BatchSize + 2
        /\ now = CleanupDelay
        /\ scan_enabled = FALSE
        /\ last = Response("tick", "ok", 0, {}, << >>)
        /\ req = [t \in {1, 2} |-> Idle]

\* the scheduled cleanup over that backlog while associate requests keep
\* arriving
NextBacklog ==
    \/ associate_file
    \/ cleanup_scheduled_files

\* a request that has arrived is served
SpecBacklog ==
    InitBacklog /\ [][NextBacklog]_vars /\ WF_vars(associate_file)

\* the admissions of the request threads, step by step, beside the orphan
\* reconciliation job of the scheduler's pool
NextReconcile ==
    \/ \E t \in Threads : ReqLookup(t) \/ ReqStore(t) \/ ReqCommit(t)
    \/ cleanup_orphaned_files

SpecReconcile == Init /\ [][NextReconcile]_vars

\* rows the registry may ever hold while every operation runs
MaxLifeAssets == 2

\* a registry the routes have filled by time 0, one admission short of that
\* bound: owner 42's image was admitted, its stored file was cut short, the
\* on-demand validation found the size wrong, a pending run may have raised
\* on it, and a manual delete removed it; each further admission of the same
\* image went the same way
InitLife ==
    \E errored \in BOOLEAN :
       LET file == File(<<"a", "png">>, PngBytes)
           removed == 1..(MaxLifeAssets - 1)
           row(i) == MediaFile(42, i, validate_file(file),
                               calculate_hash(file.content), FALSE, 0)
           per_row == IF errored THEN 2 ELSE 1
       IN  /\ media_files =
                 [i \in removed |->
                     [row(i) EXCEPT !.is_active = FALSE,
                                    !.cleanup_status = "published_and_removed",
                                    !.validation_error =
                                        IF errored THEN "error" ELSE NONE]]
           /\ next_id = MaxLifeAssets
           /\ file_validation_log =
                 [k \in 1..(per_row * (MaxLifeAssets - 1)) |->
                     IF errored /\ k % 2 = 0
                     THEN FileValidationLog(k \div 2, "validation_error",
                                            FALSE, 0)
                     ELSE FileValidationLog((k + per_row - 1) \div per_row,
                                            "complete", TRUE, 0)]
           /\ file_cleanup_log =
                 [i \in removed |->
                     FileCleanupLog(i, "manual", TRUE, PartialBytes.size, 0)]
           /\ disk = [p \in {GitKeepPath} |-> GitKeepBytes]
           /\ next_path = MaxLifeAssets
           /\ now = 0
           /\ scan_enabled = FALSE
           /\ last = Response("delete_file", "ok", MaxLifeAssets - 1, {},
                              PartialBytes.size)
           /\ req = [t \in {1, 2} |-> Idle]

\* every operation on that owner's image from there on: admission,
\* association, manual removal, the cleanup request of a giveaway, the
\* on-demand validation, the scheduled cleanup, the validation tasks and
\* both reconciliations
NextLife ==
    \/ upload_file({42}, ImageCandidates, MaxLifeAssets, 0)
    \/ associate_file
    \/ media_delete_file
    \/ cleanup_files
    \/ media_validate_file
    \/ cleanup_scheduled_files
    \/ validate_pending_files
    \/ revalidate_failed_files
    \/ cleanup_orphaned_files
    \/ admin_cleanup_orphaned_files
    \/ Tick

SpecLife == InitLife /\ [][NextLife]_vars

\* a registry whose every asset has been marked permanent by time 0: owner
\* 42's image, and possibly owner 43's, admitted with the file intact and
\* possibly associated with giveaway 7 before the marking
InitPermanent ==
    \E second \in BOOLEAN, associated \in BOOLEAN :
       LET file == File(<<"a", "png">>, PngBytes)
           admitted(account_id, file_path) ==
              MediaFile(account_id, file_path, validate_file(file),
                        calculate_hash(file.content), TRUE, 0)
           Row(account_id, file_path) ==
              mark_permanent(
                 IF associated
                 THEN mark_for_cleanup(
                         [admitted(account_id, file_path)
                             EXCEPT !.giveaway_id = 7], 0, CleanupDelay)
                 ELSE admitted(account_id, file_path))
           uploads == IF second THEN {1, 2} ELSE {1}
       IN  /\ media_files = [i \in uploads |-> Row(41 + i, i)]
           /\ next_id = Cardinality(uploads) + 1
           /\ file_validation_log =
                 [i \in uploads |-> FileValidationLog(i, "complete", TRUE, 0)]
           /\ file_cleanup_log = << >>
           /\ disk = [p \in {GitKeepPath} \cup uploads |->
                        IF p = GitKeepPath THEN GitKeepBytes ELSE PngBytes]
           /\ next_path = Cardinality(uploads) + 1
           /\ now = 0
           /\ scan_enabled = FALSE
           /\ last = Response("start", "ok", 0, {}, << >>)
           /\ req = [t \in {1, 2} |-> Idle]

\* the operations that follow the marking: association, the cleanup request
\* of a giveaway and the scheduled cleanup as time passes
NextPermanent ==
    \/ associate_file
    \/ cleanup_files
    \/ cleanup_scheduled_files
    \/ Tick

SpecPermanent == InitPermanent /\ [][NextPermanent]_vars

\* the audit trail of the registry of InitBatch over months: the validations
\* so far have left their records, the scheduled cleanup writes its own, the
\* purge of old inactive rows and the database maintenance delete them
NextAudit ==
    \/ cleanup_scheduled_files
    \/ cleanup_old_inactive_files
    \/ _database_maintenance
    \/ TickWindow

SpecAudit == InitBatch /\ [][NextAudit]_vars

\* the three removals over the registry of InitBatch: the scheduled cleanup
\* once the delay has passed, the cleanup request of a giveaway and manual
\* deletes, repeated or not
NextRemoval ==
    \/ cleanup_scheduled_files
    \/ cleanup_files
    \/ media_delete_file
    \/ Tick

SpecRemoval == InitBatch /\ [][NextRemoval]_vars

(***************************************************************************)
(* Properties.                                                             *)
(***************************************************************************)
UploadSucceeded(response) ==
    response.op = "upload" /\ response.code \in {"created", "duplicate"}

\* C1: two consecutive admissions of the same content under the same owner
\* return the same asset id and the second one inserts no row and writes no
\* file; an admission never returns an asset of another owner.
C1_ReadmissionReturnsSameAsset ==
    [][/\ (UploadSucceeded(last) /\ last'.op = "upload"
             /\ last'.arg = last.arg)
          => /\ last'.code = "duplicate"
             /\ last'.id = last.id
             /\ UNCHANGED <<media_files, file_validation_log, disk>>
       /\ UploadSucceeded(last')
          => media_files'[last'.id].account_id = last'.arg[1]]_vars

\* C2: after two concurrent admissions of identical content by the same
\* owner have both completed, there is exactly one active row and one stored
\* file for that owner and digest.
C2_RaceLeavesOneAsset ==
    (/\ \A t \in Threads : req[t].pc = "done" /\
                           req[t].code \in {"created", "duplicate"}
     /\ req[1].account_id = req[2].account_id
     /\ req[1].file.content = req[2].file.content)
    => LET rows == {i \in Ids :
                       /\ media_files[i].account_id = req[1].account_id
                       /\ media_files[i].file_hash =
                             calculate_hash(req[1].file.content)
                       /\ media_files[i].is_active}
       IN  /\ Cardinality(rows) = 1
           /\ Cardinality({p \in DOMAIN disk :
                              disk[p] = req[1].file.content}) = 1

\* the scheduled cleanup job just ran
CleanupJobRan(response) == response.op = "cleanup_scheduled_files"

\* the run deleted the file of row i or changed the row
Touched(i) ==
    \/ media_files'[i] # media_files[i]
    \/ Exists(disk, media_files[i].file_path) /\
       ~Exists(disk', media_files[i].file_path)

\* C3: a run of scheduled cleanup at reference time T deletes the file of,
\* or changes, only assets that are active, pending and due at T.
C3_CleanupTouchesOnlyDue ==
    [][CleanupJobRan(last') =>
         \A i \in Ids :
            Touched(i) =>
               /\ media_files[i].is_active
               /\ media_files[i].cleanup_status = "pending"
               /\ media_files[i].cleanup_scheduled_at # NULL
               /\ media_files[i].cleanup_scheduled_at <= now]_vars

\* a run removed one asset and left alone another, active and pending one
\* whose scheduled time is still ahead
C3_Witness ==
    /\ CleanupJobRan(last)
    /\ \E i \in last.ids : ~media_files[i].is_active
    /\ \E j \in Ids : /\ media_files[j].is_active
                      /\ media_files[j].cleanup_status = "pending"
                      /\ media_files[j].cleanup_scheduled_at > now

\* the ids a run reports with the given per-item result
ItemsWith(response, result) ==
    {response.arg[k][1] : k \in {n \in DOMAIN response.arg :
                                    response.arg[n][2] = result}}

\* the size of the file at a path, 0 when there is none
SizeOnDisk(d, file_path) ==
    IF Exists(d, file_path) THEN GetSize(d, file_path) ELSE 0

\* the records the step appended to the cleanup log
NewCleanupLogs ==
    {file_cleanup_log'[k] :
        k \in (Len(file_cleanup_log) + 1)..Len(file_cleanup_log')}

\* C4: after a committed run, every selected asset whose storage delete
\* succeeded is inactive, published_and_removed, has cleanup_completed_at
\* set, and the run logged a successful record for it whose file_size_freed
\* is the size the file had before the deletion.
C4_SuccessfulCleanup ==
    [][(CleanupJobRan(last') /\ last'.code = "ok") =>
         \A i \in ItemsWith(last', "cleaned") :
            /\ ~media_files'[i].is_active
            /\ media_files'[i].cleanup_status = "published_and_removed"
            /\ media_files'[i].cleanup_completed_at = now
            /\ \E log \in NewCleanupLogs :
                  /\ log.media_file_id = i
                  /\ log.cleanup_success
                  /\ log.file_size_freed =
                        SizeOnDisk(disk, media_files[i].file_path)]_vars

\* a committed run cleaned an asset and freed the bytes of its file
C4_Witness ==
    /\ CleanupJobRan(last) /\ last.code = "ok"
    /\ \E i \in ItemsWith(last, "cleaned") :
          \E k \in DOMAIN file_cleanup_log :
             /\ file_cleanup_log[k].media_file_id = i
             /\ file_cleanup_log[k].cleanup_success
             /\ file_cleanup_log[k].file_size_freed = media_files[i].file_size

\* C5: after a committed run, every selected asset whose deletion failed
\* (storage reported a failure or the per-item step raised) is still active
\* and pending, has cleanup_error set, has a failure record of this run, and
\* is matched again by the query of the next run.
C5_FailedCleanup ==
    [][(CleanupJobRan(last') /\ last'.code = "ok") =>
         \A i \in ItemsWith(last', "failed") \cup ItemsWith(last', "raised") :
            /\ media_files'[i].is_active
            /\ media_files'[i].cleanup_status = "pending"
            /\ media_files'[i].cleanup_error # NONE
            /\ \E log \in NewCleanupLogs :
                  log.media_file_id = i /\ ~log.cleanup_success
            /\ i \in DueForCleanup(media_files', now)]_vars

\* the association of an active asset makes it due at every reference time
\* from the association time plus the delay on
DueAfterDelay ==
    (/\ last'.op = "associate_file" /\ last'.code = "ok"
     /\ media_files'[last'.id].is_active)
    => \A T \in 0..(MaxTime + CleanupDelay) :
          T >= now + CleanupDelay =>
             last'.id \in DueForCleanup(media_files', T)

\* the successful records of the cleanup log for an asset
SuccessRecords(log, i) ==
    {k \in DOMAIN log : log[k].media_file_id = i /\ log[k].cleanup_success}

\* the asset is inactive and removed, its file is gone and the log holds
\* exactly one successful record for it
RemovedOnce(i) ==
    /\ ~media_files'[i].is_active
    /\ media_files'[i].cleanup_status = "published_and_removed"
    /\ ~Exists(disk', media_files[i].file_path)
    /\ Cardinality(SuccessRecords(file_cleanup_log', i)) = 1

HasRow(file_path) == \E i \in Ids : media_files[i].file_path = file_path

OrphanJobRan(response) == response.op = "cleanup_orphaned_files"

\* C7: a run of orphan reconciliation deletes every file whose path matches
\* no registry row and leaves every file whose path matches a row untouched.
C7_OrphansRemoved ==
    [][OrphanJobRan(last') =>
         \A p \in DOMAIN disk :
            IF HasRow(p)
            THEN Exists(disk', p) /\ disk'[p] = disk[p]
            ELSE ~Exists(disk', p)]_vars

\* C7 as amended: a run deletes every file, other than a .gitkeep
\* placeholder, whose path matches no registry row and whose removal does not
\* fail; it leaves untouched every file whose path matches a row, every
\* placeholder and every file whose removal failed, and it changes no row.
C7_OrphansRemovedExceptPlaceholders ==
    [][OrphanJobRan(last') =>
         /\ \A p \in DOMAIN disk :
               IF HasRow(p) \/ p = GitKeepPath \/ p \in last'.arg
               THEN Exists(disk', p) /\ disk'[p] = disk[p]
               ELSE ~Exists(disk', p)
         /\ DOMAIN disk' \subseteq DOMAIN disk
         /\ UNCHANGED <<media_files, file_cleanup_log>>]_vars

\* a run removed an orphan and left the file of a row in place
C7_Witness ==
    /\ OrphanJobRan(last)
    /\ last.ids # {}
    /\ \E i \in Ids : Exists(disk, media_files[i].file_path)

\* the validator or, when scanning is enabled, the scanner rejects the file
Rejected(file) ==
    \/ ~validate_file(file).valid
    \/ scan_enabled /\ ~scan_file(file.content, file.filename,
                                  validate_file(file).mime_type).safe

\* C8: an admission rejected by the validator or the scanner answers with
\* VALIDATION_FAILED or SECURITY_SCAN_FAILED and creates no row, no validation
\* record and no file.
C8_RejectionChangesNothing ==
    [][(last'.op = "upload" /\ Rejected(last'.arg[2])) =>
         /\ last'.code \in {"VALIDATION_FAILED", "SECURITY_SCAN_FAILED"}
         /\ ~validate_file(last'.arg[2]).valid
               <=> last'.code = "VALIDATION_FAILED"
         /\ UNCHANGED <<media_files, next_id, file_validation_log,
                        file_cleanup_log, disk, next_path>>]_vars

\* the scanner rejected an upload the validator had passed
C8_Witness ==
    /\ last.op = "upload"
    /\ last.code = "SECURITY_SCAN_FAILED"
    /\ validate_file(last.arg[2]).valid
    /\ Rejected(last.arg[2])

\* C9: a successful admission inserts one row with is_validated and is_active
\* true, cleanup_status pending, no giveaway and no scheduled cleanup, and in
\* the same commit exactly one passing "complete" validation record for it.
C9_AdmittedAssetState ==
    [][(last'.op = "upload" /\ last'.code = "created") =>
         LET id == last'.id
         IN  /\ id \notin Ids
             /\ DOMAIN media_files' = Ids \cup {id}
             /\ \A i \in Ids : media_files'[i] = media_files[i]
             /\ media_files'[id].is_validated
             /\ media_files'[id].is_active
             /\ media_files'[id].cleanup_status = "pending"
             /\ media_files'[id].giveaway_id = NULL
             /\ media_files'[id].cleanup_scheduled_at = NULL
             /\ media_files'[id].account_id = last'.arg[1]
             /\ media_files'[id].file_hash =
                   calculate_hash(last'.arg[2].content)
             /\ file_validation_log' =
                   Append(file_validation_log,
                          FileValidationLog(id, "complete", TRUE, now))
             /\ Cardinality({k \in DOMAIN file_validation_log' :
                               file_validation_log'[k].media_file_id = id})
                   = 1]_vars

\* an admission created an asset whose bytes are on disk
C9_Witness ==
    /\ last.op = "upload" /\ last.code = "created"
    /\ last.id \in Ids
    /\ Exists(disk, media_files[last.id].file_path)

\* C10: an admission that failed after its storage write and before the
\* commit leaves no stored file behind (last.ids is the path it wrote).
C10_AbortedAdmissionLeavesNoFile ==
    (last.op = "upload" /\ last.code = "UPLOAD_FAILED")
    => \A p \in last.ids : ~Exists(disk, p)

\* the same admission, sent again, can store its file and commit its row
RetryCanSucceed(account_id, file) ==
    \E existing_file \in {0} \cup Ids :
       ENABLED UploadStore(account_id, file, existing_file, "ok", "ok",
                           MaxAssets, MaxOrphans)

\* C11: an admission whose storage write failed answers STORAGE_FAILED and
\* leaves no row and no validation record, and the same admission can then be
\* retried with success; a row is inserted only together with the file its
\* file_path names, written by the same request.
C11_RowOnlyAfterStorageSuccess ==
    /\ [][/\ (last'.op = "upload" /\ last'.code = "STORAGE_FAILED") =>
                UNCHANGED <<media_files, next_id, file_validation_log>>
          /\ (last'.op = "upload" /\ last'.code = "created") =>
                LET file_path == media_files'[last'.id].file_path
                IN  /\ ~Exists(disk, file_path)
                    /\ Exists(disk', file_path)
                    /\ disk'[file_path] = last'.arg[2].content]_vars
    /\ [](( /\ last.op = "upload" /\ last.code = "STORAGE_FAILED"
            /\ next_id <= MaxAssets)
          => RetryCanSucceed(last.arg[1], last.arg[2]))

\* a write failed half way and left no row behind
C11_Witness ==
    /\ last.op = "upload" /\ last.code = "STORAGE_FAILED"
    /\ next_id <= MaxAssets
    /\ \E p \in DOMAIN disk : disk[p] = PartialBytes
    /\ \A i \in Ids : media_files[i].file_path \in DOMAIN disk

\* every path the storage has ever handed out, and the placeholder
Paths == 0..next_path

RemoveOutcomes == {"ok", "fail"}

\* delete_file on a missing path succeeds, frees nothing and changes nothing
DeleteOfMissingPath ==
    \A p \in Paths, outcome \in RemoveOutcomes :
       ~Exists(disk, p) =>
          /\ delete_file(disk, p, outcome).success
          /\ delete_file(disk, p, outcome).file_size_freed = 0
          /\ delete_file(disk, p, outcome).disk = disk

C13_DownloadOutcomes ==
    [][last'.op = "download_file" =>
         IF last'.id \notin Ids
         THEN last'.code = "404"
         ELSE IF ~media_files[last'.id].is_active
         THEN last'.code = "410" /\ last'.arg = << >>
         ELSE /\ last'.code \in {"200", "404", "500"}
              /\ last'.code = "200" =>
                    last'.arg = <<media_files[last'.id].mime_type,
                                  disk[media_files[last'.id].file_path]>>]_vars

\* a manual or orphan removal of the asset was logged
RemovalLogged(i) ==
    \E k \in DOMAIN file_cleanup_log :
       /\ file_cleanup_log[k].media_file_id = i
       /\ file_cleanup_log[k].cleanup_trigger \in {"manual", "orphaned_cleanup"}
       /\ file_cleanup_log[k].cleanup_success

\* C18: every inactive asset is published_and_removed or was deactivated by
\* a logged manual or orphan removal, and no inactive asset is pending.
C18_InactiveIsRemoved ==
    \A i \in Ids :
       ~media_files[i].is_active =>
          /\ \/ media_files[i].cleanup_status = "published_and_removed"
             \/ RemovalLogged(i)
          /\ media_files[i].cleanup_status # "pending"

\* C20: the cleanup_status of every asset is pending, published_and_removed
\* or permanent.
C20_RetentionStateDomain ==
    \A i \in Ids :
       media_files[i].cleanup_status \in
          {"pending", "published_and_removed", "permanent"}

\* the records of either audit table that belong to the asset
RecordsOf(log, i) == {k \in DOMAIN log : log[k].media_file_id = i}

ValidationTaskRan ==
    /\ last'.op \in {"validate_pending_files", "revalidate_failed_files"}
    /\ last'.code = "ok"

\* the record kinds that report a completed validation: 'complete' at
\* admission, 'complete_validation' in the task
CompleteKinds == {"complete", "complete_validation"}

\* the validation records a step appended
NewValidationLogs ==
    SubSeq(file_validation_log', Len(file_validation_log) + 1,
           Len(file_validation_log'))

\* the rows of a run on which every enabled check passes and nothing raises
PassingFiles ==
    {i \in last'.ids :
        /\ i \notin last'.arg.raised
        /\ ValidationChecks(media_files[i], disk, scan_enabled) = "ok"}

\* C14: when a validation task processes an unvalidated asset on which every
\* enabled check passes, then after the run has committed the asset is
\* validated, its validation_error is null and one passing completion record
\* has been appended for it.
C14_PassingValidationMarksValidated ==
    [][ValidationTaskRan =>
          \A i \in PassingFiles :
             /\ ~media_files[i].is_validated
             /\ media_files'[i].is_validated
             /\ media_files'[i].validation_error = NONE
             /\ Cardinality(
                   {k \in DOMAIN NewValidationLogs :
                       /\ NewValidationLogs[k].media_file_id = i
                       /\ NewValidationLogs[k].validation_type
                             \in CompleteKinds
                       /\ NewValidationLogs[k].validation_result}) = 1]_vars

\* a pending run validated an asset whose file had been restored
C14_Witness ==
    /\ last.op = "validate_pending_files" /\ last.code = "ok"
    /\ \E i \in last.arg.validated :
          /\ media_files[i].is_validated
          /\ media_files[i].validation_error = NONE
          /\ \E k \in DOMAIN file_validation_log :
                /\ file_validation_log[k].media_file_id = i
                /\ file_validation_log[k].validation_type
                      = "complete_validation"

\* the rows of a run on which some check fails
FailingFiles ==
    {i \in last'.ids :
        /\ i \notin last'.arg.raised
        /\ ValidationChecks(media_files[i], disk, scan_enabled) # "ok"}

\* C15: when a validation task processes an asset and a check fails, the
\* asset stays unvalidated, its validation_error is set, a failing record is
\* appended for it, and so the revalidation query selects it.
C15_FailedValidationIsRecorded ==
    [][ValidationTaskRan =>
          \A i \in FailingFiles :
             /\ ~media_files'[i].is_validated
             /\ media_files'[i].validation_error # NONE
             /\ \E k \in DOMAIN NewValidationLogs :
                   /\ NewValidationLogs[k].media_file_id = i
                   /\ ~NewValidationLogs[k].validation_result
             /\ i \in FailedFiles(media_files')]_vars

\* the stored bytes of a row differ from the bytes its hash was taken of
IntegrityFails(media_file, d) ==
    /\ Exists(d, media_file.file_path)
    /\ ~_validate_file_integrity(media_file, d)

\* C16: a run of a validation task, committed or not, deletes no stored file
\* and no registry row and changes no asset's is_active, cleanup_status or
\* cleanup timestamps; an asset it processed whose stored bytes no longer
\* match its hash stays active, unvalidated, with its file in place.
C16_ValidationNeverRemoves ==
    [][last'.op \in {"validate_pending_files", "revalidate_failed_files"} =>
          /\ disk' = disk
          /\ DOMAIN media_files' = DOMAIN media_files
          /\ \A i \in Ids :
                /\ media_files'[i].is_active = media_files[i].is_active
                /\ media_files'[i].cleanup_status
                      = media_files[i].cleanup_status
                /\ media_files'[i].cleanup_scheduled_at
                      = media_files[i].cleanup_scheduled_at
                /\ media_files'[i].cleanup_completed_at
                      = media_files[i].cleanup_completed_at
                /\ media_files'[i].file_path = media_files[i].file_path
          /\ \A i \in last'.ids :
                IntegrityFails(media_files[i], disk) =>
                   /\ media_files'[i].is_active
                   /\ ~media_files'[i].is_validated
                   /\ Exists(disk', media_files'[i].file_path)]_vars

\* a committed pending run processed an asset whose stored bytes had been
\* overwritten, and left it active and unvalidated with the file in place
C16_Witness ==
    /\ last.op = "validate_pending_files" /\ last.code = "ok"
    /\ \E i \in last.ids :
          /\ IntegrityFails(media_files[i], disk)
          /\ media_files[i].is_active
          /\ ~media_files[i].is_validated

\* a passing completion record of the asset is in the validation log
HasCompleteRecord(i) ==
    \E k \in DOMAIN file_validation_log :
       /\ file_validation_log[k].media_file_id = i
       /\ file_validation_log[k].validation_type \in CompleteKinds
       /\ file_validation_log[k].validation_result

\* C19 as stated: every validated asset has a passing completion record in
\* the validation log.
C19_ValidatedHasCompleteRecord ==
    \A i \in Ids : media_files[i].is_validated => HasCompleteRecord(i)

\* C19: a validated asset has a passing completion record in the validation
\* log for as long as it is not older than the window after which database
\* maintenance deletes validation records.
C19_ValidatedHasRecordUntilMaintenance ==
    \A i \in Ids :
       (media_files[i].is_validated
          /\ ~(media_files[i].uploaded_at < now - LogWindow))
       => HasCompleteRecord(i)

\* maintenance has deleted the completion record of an asset that is still
\* validated
C19_Witness ==
    /\ last.op = "database_maintenance" /\ last.code = "ok"
    /\ \E i \in Ids :
          /\ media_files[i].is_validated
          /\ ~HasCompleteRecord(i)
          /\ media_files[i].uploaded_at < now - LogWindow

\* C21: a successful association sets giveaway_id and cleanup_scheduled_at =
\* now + the configured delay on the asset, leaves its cleanup_status at
\* pending and changes nothing else; an association that answers an error
\* changes nothing.
C21_AssociateFrame ==
    [][last'.op = "associate_file" =>
          /\ UNCHANGED <<file_validation_log, file_cleanup_log, disk, next_id>>
          /\ DOMAIN media_files' = Ids
          /\ IF last'.code = "ok"
             THEN LET i == last'.id
                  IN  /\ i \in Ids
                      /\ \A j \in Ids \ {i} : media_files'[j] = media_files[j]
                      /\ media_files[i].cleanup_status = "pending"
                      /\ media_files'[i] =
                            [media_files[i] EXCEPT
                                !.giveaway_id = last'.arg,
                                !.cleanup_scheduled_at = now + CleanupDelay]
             ELSE UNCHANGED media_files]_vars

\* the deletion attempts of the step that led to last': the items of a
\* cleanup batch, the file of a manual delete, the orphans of the walk, and
\* for the purge the files it removed
DeletionAttempts ==
    CASE last'.op \in {"cleanup_scheduled_files", "cleanup_files"} ->
           Cardinality(last'.ids)
      [] last'.op = "delete_file" ->
           IF last'.code = "FILE_NOT_FOUND" THEN 0 ELSE 1
      [] last'.op = "cleanup_orphaned_files" ->
           Cardinality(last'.ids \cup last'.arg)
      [] last'.op = "cleanup_old_inactive_files" ->
           Cardinality(DOMAIN disk \ DOMAIN disk')
      [] OTHER -> 0

\* C22: every deletion attempt, on whatever path and whatever its outcome,
\* appends exactly one cleanup record, and the records that exist are never
\* modified: each step extends the cleanup log by as many records as it made
\* attempts.
C22_EveryAttemptIsRecorded ==
    [][/\ Len(file_cleanup_log') = Len(file_cleanup_log) + DeletionAttempts
       /\ SubSeq(file_cleanup_log', 1, Len(file_cleanup_log))
             = file_cleanup_log]_vars

\* C23: the scheduler never runs two executions of the same job id at once,
\* whatever else is running on the other workers and on request threads
RunningJobs(j) ==
    {w \in Workers \cap DOMAIN req : req[w].pc = "running" /\ req[w].job = j}

C23_OneInstancePerJob ==
    \A j \in JobIds : Cardinality(RunningJobs(j)) <= 1

\* two different jobs run while an admission request is between its storage
\* write and its commit
C23_Witness ==
    /\ \E j1, j2 \in JobIds :
          j1 # j2 /\ RunningJobs(j1) # {} /\ RunningJobs(j2) # {}
    /\ req[1].pc = "commit"

\* C24: a failure of init_app, of a job registration or of scheduler.start()
\* leaves no exception behind: start() returns, is_running stays false, no
\* job is submitted or run, and an idle request thread can still be served
SchedulerDown ==
    /\ Scheduler \in DOMAIN req
    /\ req[Scheduler].thread \in {"none", "returned"}
    /\ req[Scheduler].state = "stopped"

C24_StartupFailureIsContained ==
    Scheduler \in DOMAIN req =>
       /\ req[Scheduler].thread # "raised"
       /\ req[Scheduler].is_running <=> req[Scheduler].state = "running"
       /\ SchedulerDown =>
             /\ ~req[Scheduler].is_running
             /\ req[Scheduler].queue = << >>
             /\ \A w \in Workers \cap DOMAIN req : req[w].pc = "idle"
             /\ req[1].pc = "idle" => ENABLED ReqLookup(1)

\* scheduler.start() raised after the jobs were added, and an admission was
\* served all the same
C24_Witness ==
    /\ SchedulerDown
    /\ req[Scheduler].scheduler
    /\ req[Scheduler].jobs = JobIds
    /\ req[1].pc = "done"
    /\ req[1].code = "created"

\* C25: a manual removal whose storage delete succeeds leaves the asset
\* inactive with a successful manual cleanup record, listed among the
\* owner's inactive assets and answered 410 by a later download; one whose
\* storage delete fails changes nothing but appends the failed manual
\* record; an unknown id is answered not-found and changes nothing
ManualRecord(i, success) ==
    /\ Len(file_cleanup_log') = Len(file_cleanup_log) + 1
    /\ SubSeq(file_cleanup_log', 1, Len(file_cleanup_log)) = file_cleanup_log
    /\ LET cleanup_log == file_cleanup_log'[Len(file_cleanup_log')]
       IN  /\ cleanup_log.media_file_id = i
           /\ cleanup_log.cleanup_trigger = "manual"
           /\ cleanup_log.cleanup_success = success

ManuallyRemoved(i) ==
    /\ i \in Ids
    /\ ~media_files[i].is_active
    /\ \E k \in 1..Len(file_cleanup_log) :
          /\ file_cleanup_log[k].media_file_id = i
          /\ file_cleanup_log[k].cleanup_trigger = "manual"
          /\ file_cleanup_log[k].cleanup_success

C25_ManualRemoval ==
    [][/\ last'.op = "delete_file" =>
             IF last'.code = "FILE_NOT_FOUND"
             THEN UNCHANGED <<media_files, file_cleanup_log, disk>>
             ELSE LET i == last'.id
                  IN  /\ i \in Ids
                      /\ DOMAIN media_files' = Ids
                      /\ \A k \in Ids \ {i} : media_files'[k] = media_files[k]
                      /\ IF ~Exists(disk', media_files[i].file_path)
                         THEN /\ ~media_files'[i].is_active
                              /\ ManualRecord(i, TRUE)
                              /\ i \in AccountFilesQuery(media_files',
                                          media_files[i].account_id,
                                          "inactive")
                         ELSE /\ media_files'[i] = media_files[i]
                              /\ ManualRecord(i, FALSE)
       /\ (last'.op = "download_file" /\ ManuallyRemoved(last'.id))
             => last'.code = "410"]_vars

SpoofedImage(file) ==
    /\ _get_file_extension(file.filename) \in ALLOWED_IMAGE_EXTENSIONS
    /\ file.content.mime \notin
          expected_mimes(_get_file_extension(file.filename))

VerdictIgnoresDeclaredType ==
    \A content_type \in DeclaredTypes :
       LET other == [last.arg[1] EXCEPT !.content_type = content_type]
       IN  /\ validate_file(other) = last.arg[2]
           /\ validate_phase(other) = last.code

C27_DeclaredTypeIsIgnored ==
    last.op = "validate_file" =>
       /\ VerdictIgnoresDeclaredType
       /\ SpoofedImage(last.arg[1]) =>
             /\ ~last.arg[2].valid
             /\ last.code = "mime_mismatch"

\* C27 as amended: the spoofed image is always rejected, and with the
\* MIME-mismatch error when it is not empty and not over the image size limit
C27_DeclaredTypeIsIgnoredSizeFirst ==
    last.op = "validate_file" =>
       /\ VerdictIgnoresDeclaredType
       /\ SpoofedImage(last.arg[1]) =>
             /\ ~last.arg[2].valid
             /\ (/\ last.arg[1].content.size > 0
                 /\ last.arg[1].content.size <= MaxImageSize)
                   => last.code = "mime_mismatch"

\* an executable named a.png and declared image/png was rejected for its MIME
C27_Witness ==
    /\ last.op = "validate_file"
    /\ last.arg[1] = Upload(<<"a", "png">>, ExeBytes, "image/png")
    /\ last.code = "mime_mismatch"
    /\ ~last.arg[2].valid

\* C28: through a scan the risk level never goes down in the order
\* low < medium < high < critical; the returned result is unsafe exactly
\* when it lists a threat and exactly when its level is medium or above; a
\* script marker in image bytes gives an unsafe result of level medium or
\* above
RiskOrder(risk_level) ==
    CASE risk_level = "low" -> 1
      [] risk_level = "medium" -> 2
      [] risk_level = "high" -> 3
      [] risk_level = "critical" -> 4

C28_RiskOnlyRises ==
    last.op = "scan_file" =>
       LET steps == last.arg[2]
           result == steps[Len(steps)]
           file == last.arg[1]
       IN  /\ \A k \in 1..(Len(steps) - 1) :
                 RiskOrder(steps[k].risk_level) <=
                    RiskOrder(steps[k + 1].risk_level)
           /\ ~result.safe <=> result.threats_detected # << >>
           /\ ~result.safe <=> RiskOrder(result.risk_level) >= 2
           /\ (/\ IsImageMime(file.content.mime)
               /\ file.content.marks \cap {"script_head", "script_body"} # {})
                 => /\ ~result.safe
                    /\ RiskOrder(result.risk_level) >= 2

\* a scan went from low to medium at the pattern check and on to high at the
\* header check
C28_Witness ==
    /\ last.op = "scan_file"
    /\ last.arg[2][3].risk_level = "low"
    /\ last.arg[2][4].risk_level = "medium"
    /\ last.arg[2][5].risk_level = "high"
    /\ ~last.arg[2][7].safe

\* C29: a run of a batch job that ends in the rollback of its except clause
\* (the final commit raised) leaves the registry as it was before the run:
\* no asset field and no audit record of the run is visible
BatchJobs ==
    {"cleanup_scheduled_files", "validate_pending_files",
     "revalidate_failed_files", "cleanup_old_inactive_files"}

C29_RollbackIsWholesale ==
    [][(last'.op \in BatchJobs /\ last'.code = "rolled_back") =>
          UNCHANGED <<media_files, file_validation_log, file_cleanup_log>>]_vars

\* a scheduled cleanup deleted a file and its commit raised: the row is
\* still active and pending and the run left no record
C29_Witness ==
    /\ last.op = "cleanup_scheduled_files"
    /\ last.code = "rolled_back"
    /\ \E i \in ItemsWith(last, "cleaned") :
          /\ i \in Ids
          /\ media_files[i].is_active
          /\ media_files[i].cleanup_status = "pending"
          /\ ~Exists(disk, media_files[i].file_path)
          /\ \A k \in DOMAIN file_cleanup_log :
                file_cleanup_log[k].media_file_id # i

\* C30: in a committed run of the scheduled cleanup every selected item is
\* processed whatever happened to the others: an item whose storage delete
\* succeeded is cleaned and recorded although another item failed or raised,
\* and the run in the opposite order of items leaves the same rows, files
\* and records
ItemResult(response, i) ==
    LET k == CHOOSE n \in DOMAIN response.arg : response.arg[n][1] = i
    IN  response.arg[k][2]

ItemOutcome(result) ==
    CASE result = "cleaned" -> "ok"
      [] result = "failed" -> "fail"
      [] OTHER -> "raise"

Reverse(seq) == [k \in 1..Len(seq) |-> seq[Len(seq) + 1 - k]]

Records(log) == {log[k] : k \in DOMAIN log}

C30_ItemsAreIsolated ==
    [][(CleanupJobRan(last') /\ last'.code = "ok") =>
         LET files == SetToSeq(last'.ids)
             outcomes == [i \in last'.ids |->
                            ItemOutcome(ItemResult(last', i))]
             backwards == CleanupLoop(Reverse(files), media_files,
                                      file_cleanup_log, disk, now,
                                      "scheduled", outcomes)
         IN  /\ \A i \in last'.ids :
                   ItemResult(last', i) \in {"cleaned", "failed", "raised"}
             /\ \A i \in ItemsWith(last', "cleaned") :
                   /\ ~media_files'[i].is_active
                   /\ media_files'[i].cleanup_status = "published_and_removed"
                   /\ \E log \in NewCleanupLogs :
                         log.media_file_id = i /\ log.cleanup_success
             /\ backwards.media_files = media_files'
             /\ backwards.disk = disk'
             /\ Records(backwards.file_cleanup_log) =
                   Records(file_cleanup_log')]_vars

\* in one committed run the first item raised or failed and the second was
\* cleaned
C30_Witness ==
    /\ CleanupJobRan(last) /\ last.code = "ok"
    /\ Len(last.arg) = 2
    /\ last.arg[1][2] \in {"raised", "failed"}
    /\ last.arg[2][2] = "cleaned"
    /\ ~media_files[last.arg[2][1]].is_active
    /\ media_files[last.arg[1][1]].is_active

\* the batch commits of the scheduled job succeed, the asset is not
\* associated anew, and a run that takes the asset has its storage delete
\* succeed
DeleteWouldSucceed(i) ==
    /\ last.code # "rolled_back"
    /\ i \in Ids => media_files[i].cleanup_scheduled_at = CleanupDelay
    /\ (CleanupJobRan(last) /\ i \in last.ids) =>
          ItemResult(last, i) = "cleaned"

\* the interval trigger of scheduler.py fires the job again and again
JobKeepsFiring == []<><<cleanup_scheduled_files>>_vars

\* C31: a scheduled cleanup run processes at most batch_size assets and
\* leaves the others as they are; and, the job firing again and again, every
\* active pending asset that is due and whose storage delete would succeed
\* is eventually cleaned up, however many other due assets keep failing.
C31_BacklogIsEventuallyProcessed ==
    /\ [][CleanupJobRan(last') =>
             /\ Cardinality(last'.ids) <= BatchSize
             /\ \A i \in Ids \ last'.ids : media_files'[i] = media_files[i]]_vars
    /\ \A i \in 1..(BatchSize + 1) :
          (JobKeepsFiring /\ []DeleteWouldSucceed(i)) =>
             ((i \in DueForCleanup(media_files, now))
                 ~> (i \in Ids /\ ~media_files[i].is_active))

\* the order in which the validation task evaluates its checks
CheckOrder == <<"file_existence", "integrity", "content", "security">>

\* the checks evaluated for an asset are the first ones of the fixed order,
\* security among them only when scanning is enabled, and none follows a
\* check that failed
StopsAtFirstFailure(details) ==
    /\ Len(details) >= 1
    /\ Len(details) <= IF scan_enabled THEN 4 ELSE 3
    /\ \A k \in DOMAIN details :
          /\ details[k][1] = CheckOrder[k]
          /\ k < Len(details) => details[k][2]

\* every enabled check was evaluated and passed
AllChecksPassed(details) ==
    /\ Len(details) = IF scan_enabled THEN 4 ELSE 3
    /\ \A k \in DOMAIN details : details[k][2]

\* C32: the validation task evaluates the checks of an asset in the order
\* existence, integrity, content, security (only when scanning is enabled),
\* evaluates none after one that failed, and marks the asset validated only
\* when every enabled check was evaluated and passed.
C32_ChecksRunInOrder ==
    [][last'.op \in {"validate_pending_files", "revalidate_failed_files"} =>
          \A i \in last'.ids :
             LET details == ValidationDetails(media_files[i], disk,
                                              scan_enabled)
             IN  /\ StopsAtFirstFailure(details)
                 /\ media_files'[i].is_validated => AllChecksPassed(details)
                 /\ (last'.code = "ok" /\ i \notin last'.arg.raised) =>
                       (media_files'[i].is_validated
                           <=> AllChecksPassed(details))]_vars

\* a committed pending run processed two assets: one whose file had been cut
\* short, which fails the integrity check and would fail the content check,
\* and stays unvalidated; one on which every check passed
C32_Witness ==
    /\ last.op = "validate_pending_files" /\ last.code = "ok"
    /\ \E i \in last.ids \ last.arg.validated :
          /\ Exists(disk, media_files[i].file_path)
          /\ ~_validate_file_integrity(media_files[i], disk)
          /\ ~_validate_file_content(media_files[i], disk)
          /\ ValidationDetails(media_files[i], disk, scan_enabled)
                = <<Check("file_existence", TRUE), Check("integrity", FALSE)>>
          /\ ~media_files[i].is_validated
    /\ \E j \in last.arg.validated : media_files[j].is_validated

\* C33: whatever the interleaving of orphan reconciliation with the storage
\* write and the registry commit of an admission, every asset committed as
\* active has its file in storage.
C33_ReconciliationSparesAdmissions ==
    \A i \in Ids :
       media_files[i].is_active => Exists(disk, media_files[i].file_path)

\* no request thread is between its storage write and its commit
NothingInFlight ==
    \A t \in Threads : req[t].pc \in {"idle", "done"}

\* C34: whenever no operation is in flight, every active asset has its file
\* in storage at its file_path, also after a scheduled or giveaway cleanup
\* run whose storage deletes succeeded and whose commit was rolled back.
C34_ActiveAssetsHaveFiles ==
    NothingInFlight =>
       \A i \in Ids :
          media_files[i].is_active => Exists(disk, media_files[i].file_path)

\* the rows a run of the scheduled cleanup or of a validation task selected
Selected(response) ==
    IF response.op \in {"cleanup_scheduled_files", "validate_pending_files",
                        "revalidate_failed_files"}
    THEN response.ids ELSE {}

\* C35: an asset that is inactive is never active again, whatever operation
\* runs, and neither the scheduled cleanup nor a validation task selects it.
C35_DeactivationIsIrreversible ==
    [][\A i \in Ids :
          ~media_files[i].is_active =>
             /\ i \in DOMAIN media_files'
             /\ ~media_files'[i].is_active
             /\ i \notin Selected(last')]_vars

\* a scheduled cleanup ran past an inactive asset that an association had
\* made pending and due again, after the same content was admitted anew
C35_Witness ==
    /\ last.op = "cleanup_scheduled_files"
    /\ \E i \in Ids \ last.ids :
          /\ ~media_files[i].is_active
          /\ media_files[i].cleanup_status = "pending"
          /\ media_files[i].cleanup_scheduled_at # NULL
          /\ media_files[i].cleanup_scheduled_at <= now
          /\ ~media_files[i].is_validated
          /\ \E j \in Ids \ {i} :
                media_files[j].file_hash = media_files[i].file_hash

C37_InactiveHasCompletionTime ==
    \A i \in Ids :
       ~media_files[i].is_active =>
          media_files[i].cleanup_completed_at # NULL

\* C38: every validation record and every cleanup record names an asset
\* that is still in the registry: neither the purge of old inactive rows nor
\* the database maintenance leaves a record of a hard-deleted asset.
C38_AuditTrailIsReferential ==
    /\ \A k \in DOMAIN file_validation_log :
          file_validation_log[k].media_file_id \in Ids
    /\ \A k \in DOMAIN file_cleanup_log :
          file_cleanup_log[k].media_file_id \in Ids

\* the purge hard-deleted an asset while records of another asset, both a
\* validation and a cleanup record, stay in the trail
C38_Witness ==
    /\ last.op = "cleanup_old_inactive_files"
    /\ last.ids # {}
    /\ Ids # {}
    /\ file_validation_log # << >>
    /\ file_cleanup_log # << >>

RECURSIVE BytesFreed(_)
\* the bytes the records at these positions report as freed
BytesFreed(positions) ==
    IF positions = {} THEN 0
    ELSE LET k == CHOOSE n \in positions : TRUE
         IN  file_cleanup_log[k].file_size_freed + BytesFreed(positions \ {k})

====
